---- MODULE Spec2Model ----
(***************************************************************************)
(* Model of the TMC service object (src/src/actions/types.ts, class TMC):  *)
(*   - the Process Runner (_spawnLangsProcess),                            *)
(*   - the helper-driven facade (_executeLangsCommand, runTests) with the  *)
(*     Response Validator (_checkLangsResponse) and the helper cache,      *)
(*   - downloadExercise and downloadOldExercise,                           *)
(*   - authenticate / deauthenticate / isAuthenticated,                    *)
(*   - the HTTP fetch wrapper (_tmcApiRequest) with its response cache,    *)
(*   - the legacy helper bridge (_executeLangsAction).                     *)
(* Each part has its own specification (SpecRunner, SpecLangs,             *)
(* SpecDownload, SpecAuth) over the variables it owns; the variables of    *)
(* the other parts stay at their initial value.  SpecRunnerLangs and       *)
(* SpecRunTests put _executeLangsCommand and runTests on top of the        *)
(* runner, SpecLangsCall applies one call to every final record of the     *)
(* response schema, SpecLangsPair lets the calls of two callers and a      *)
(* runTests call overlap, and SpecRunnerFair adds the fairness of the      *)
(* runner.                                                                 *)
(* SpecApi, SpecLegacy and SpecLogin cover the fetch wrapper, the legacy   *)
(* bridge and the login process authenticate spawns; SpecLangsKeys runs    *)
(* the facade on argument lists that differ in one value; SpecRunnerPair   *)
(* and SpecAuthOverlap run two runner invocations and two authentication   *)
(* calls at the same time.  SpecReader feeds the data handler of the       *)
(* runner the bytes of one output in every chunking.                       *)
(***************************************************************************)
EXTENDS Naturals, Integers, Sequences, FiniteSets, TLC

(***************************************************************************)
(* Bounds                                                                  *)
(***************************************************************************)
\* how many times interrupt() is invoked on one runner
MaxInterrupts == 2
\* how many records one process emits on stdout
MaxRecords == 2
\* how many stderr chunks one process emits
MaxStderr == 1
\* how many records the stdout of one facade call holds
MaxStdout == 2
\* records and stderr chunks each of two concurrent processes emits
MaxPairOutput == 2
\* how many lines the child of the stdout reader writes
MaxLines == 2

(***************************************************************************)
(* Helper responses (UncheckedLangsResponse, types.ts 118-138)             *)
(***************************************************************************)
\* JSON null in the message field
NullMsg == "<null>"

\* data payloads: a JSON value is modelled by its kind and its content
DataNull == [tag |-> "null", items |-> << >>]
DataStrs == [tag |-> "strs", items |-> <<"e1", "e2">>]
DataObjA == [tag |-> "obj", items |-> <<"abc">>]
DataObjB == [tag |-> "obj", items |-> <<"xyz">>]

\* records the runner model lets a process emit
RecProgress ==
    [status |-> "in-progress", result |-> "processing", data |-> DataNull, message |-> NullMsg]
RecFinished ==
    [status |-> "finished", result |-> "executed-command", data |-> DataObjA, message |-> NullMsg]
RunnerRecords == {RecProgress, RecFinished}

\* the closed sets of the status and result tags (only the tags the code tells apart)
Statuses == {"finished", "crashed", "in-progress"}
Results == {"error", "retrieved-data", "logged-in"}
Datas == {DataNull, DataStrs, DataObjA, DataObjB}
Messages == {NullMsg, "", "bad course id"}
AllRecords == [status : Statuses, result : Results, data : Datas, message : Messages]

\* placeholder for "no record"
NoRecord == [status |-> "", result |-> "", data |-> DataNull, message |-> NullMsg]

(***************************************************************************)
(* State                                                                   *)
(***************************************************************************)
VARIABLES
    \* ---- Process Runner: one invocation of _spawnLangsProcess ----
    active,            \* let active (1020)
    interrupted,       \* let interrupted (1021)
    stdout,            \* const stdout: UncheckedLangsResponse[] (1014)
    stderr,            \* let stderr (1013), as the sequence of chunks
    processResult,     \* the promise of 1028: "pending" | "resolved" | "rejected"
    rejection,         \* the value processResult was rejected with
    timeout,           \* the timer of 1033: "armed" | "fired" | "cleared"
    cprocess,          \* the child: "running" | "exited"
    exitCode,          \* the code the exit event carried
    errorEmitted,      \* the child emitted its 'error' event
    stdoutDestroyed,   \* cprocess.stdout.destroyed
    resultPc,          \* position of the async function of 1082: "await" | "drain" | "done"
    result,            \* the value the result promise resolved to
    kills,             \* number of kill(cprocess.pid) calls issued
    interruptCalls,    \* number of interrupt() invocations
    interruptedBeforeResolved, \* interrupt() was invoked while result was pending
    recordsAtExit,     \* number of records collected when the exit event fired
    \* ---- Response Validator on its own ----
    checkedInput,      \* the record and the checker _checkLangsResponse was applied to
    checkedOutput,     \* what it returned
    \* ---- helper-driven facade: _executeLangsCommand, runTests ----
    rustCache,         \* this._rustCache (157): cache key -> entry
    calls,             \* the _executeLangsCommand call each caller has in flight
    lastReturn,        \* the facade call that returned last, with its inputs and result
    freshData,         \* key -> data of the latest successful fresh invocation
    origData,          \* key -> data of the original successful call, kept while no
                       \* useCache=false call is made for the key
    entryArgs,         \* key -> langsArgs.args of the call that stored the entry
    testRun,           \* the runTests call whose process is running, if any
    \* ---- configuration ----
    insider,           \* what this._isInsider() returns now (155)
    \* ---- downloadExercise ----
    workspaceManager,  \* this._workspaceManager is assigned (160)
    exercises,         \* exercise ids that have an entry in the workspace manager
    archives,          \* exercise ids whose archive file exists in the data path
    oldCall,           \* the downloadOldExercise call in flight, or the last one's result
    downloadPc,        \* position of the downloadExercise call in flight
    downloadId,        \* its id argument
    downloadReturn,    \* the downloadExercise call that returned last
    downloadCall,      \* the latest downloadExercise call: how its lookups ended, and
                       \* the exercise entries and archives that existed when it began
    \* ---- authentication ----
    token,             \* this._token (158)
    storedToken,       \* the token persisted by this._storage
    langsToken,        \* the token in the helper's own login store
    authPc,            \* position of the authentication call in flight
    authCall,          \* that call: operation and token state when it was made
    authReturn,        \* the authentication call that returned last
    lastWritten,       \* the value most recently written to either token store
    \* ---- HTTP fetch wrapper: _tmcApiRequest ----
    apiCache,          \* this._cache (156): method + endpoint -> response object
    apiCall,           \* the _tmcApiRequest call that awaits fetch
    apiReturn,         \* the _tmcApiRequest call that returned last
    \* ---- the helper process authenticate spawns ----
    loginSpawn,        \* the login process spawned last: arguments and stdin text
    prevLoginSpawn,    \* the login process spawned before that one
    \* ---- legacy helper bridge: one invocation of _executeLangsAction ----
    legacy,            \* its closure variables, its timer, its child and its promises
    \* ---- overlapping authentication calls ----
    ops,               \* per caller: the authentication call it has in flight
    lastCompleted,     \* the authentication call that completed last, and what it wrote
    \* ---- line-buffered stdout reader of one invocation ----
    reader,            \* the bytes in the pipe, the text decoded so far, stdoutBuffer,
                       \* the stdout array and the result
    \* ---- two Process Runner invocations in flight ----
    runners,           \* per invocation: the closure variables and promises of its
                       \* _spawnLangsProcess call
    procs              \* per child process: what it emitted and the kills aimed at it

runnerVars == <<active, interrupted, stdout, stderr, processResult, rejection, timeout,
                cprocess, exitCode, errorEmitted, stdoutDestroyed, resultPc, result,
                kills, interruptCalls, interruptedBeforeResolved, recordsAtExit>>

validatorVars == <<checkedInput, checkedOutput>>

langsVars == <<rustCache, calls, lastReturn, freshData, origData, entryArgs, testRun>>

downloadVars == <<workspaceManager, exercises, archives, downloadPc, downloadId, downloadReturn,
                  downloadCall, oldCall>>

authVars == <<token, storedToken, langsToken, authPc, authCall, authReturn, lastWritten>>

apiVars == <<apiCache, apiCall, apiReturn>>

loginVars == <<loginSpawn, prevLoginSpawn>>

overlapVars == <<ops, lastCompleted>>

pairVars == <<runners, procs>>

vars == <<runnerVars, validatorVars, langsVars, insider, downloadVars, authVars, apiVars,
          loginVars, legacy, overlapVars, pairVars, reader>>

\* what each part leaves alone
notRunner == <<validatorVars, langsVars, insider, downloadVars, authVars, apiVars, loginVars, legacy, overlapVars, pairVars, reader>>
notValidator == <<runnerVars, langsVars, insider, downloadVars, authVars, apiVars, loginVars, legacy, overlapVars, pairVars, reader>>
notLangs == <<runnerVars, validatorVars, insider, downloadVars, authVars, apiVars, loginVars, legacy, overlapVars, pairVars, reader>>
notDownload == <<runnerVars, validatorVars, langsVars, authVars, apiVars, loginVars, legacy, overlapVars, pairVars, reader>>
notAuth == <<runnerVars, validatorVars, langsVars, downloadVars, apiVars, loginVars, legacy, overlapVars, pairVars, reader>>
notApi == <<runnerVars, validatorVars, langsVars, insider, downloadVars, authVars, loginVars, legacy, overlapVars, pairVars, reader>>
notLegacy == <<runnerVars, validatorVars, langsVars, insider, downloadVars, authVars, apiVars,
              loginVars, overlapVars, pairVars, reader>>
notOverlap == <<runnerVars, validatorVars, langsVars, downloadVars, apiVars, loginVars, legacy,
               authPc, authCall, authReturn, lastWritten, pairVars, reader>>
notPair == <<runnerVars, validatorVars, langsVars, insider, downloadVars, authVars, apiVars,
            loginVars, legacy, overlapVars, reader>>
notReader == <<runnerVars, validatorVars, langsVars, insider, downloadVars, authVars, apiVars,
              loginVars, legacy, overlapVars, pairVars>>
notLogin == <<runnerVars, validatorVars, langsVars, downloadVars, authVars, apiVars, legacy, overlapVars, pairVars, reader>>

(***************************************************************************)
(* Process Runner (_spawnLangsProcess, types.ts 1003-1117)                 *)
(***************************************************************************)
TimeoutMessage == "Process didn't seem to finish or was taking a really long time."
KilledMessage == "TMC Langs process was killed."
ProcessErrorValue == "Error: spawn"

ExitCodes == {0, 1, -1}         \* -1 stands for the null code of a signalled child

RunnerPending == [st |-> "pending", kind |-> "", msg |-> "", out |-> << >>, errs |-> << >>]
RunnerErr(m) == [st |-> "err", kind |-> "RuntimeError", msg |-> m, out |-> << >>, errs |-> << >>]
RunnerOk(o, e) == [st |-> "ok", kind |-> "", msg |-> "", out |-> o, errs |-> e]

RunnerInit ==
    /\ active = TRUE
    /\ interrupted = FALSE
    /\ stdout = << >>
    /\ stderr = << >>
    /\ processResult = "pending"
    /\ rejection = ""
    /\ timeout = "armed"
    /\ cprocess = "running"
    /\ exitCode = 0
    /\ errorEmitted = FALSE
    /\ stdoutDestroyed = FALSE
    /\ resultPc = "await"
    /\ result = RunnerPending
    /\ kills = 0
    /\ interruptCalls = 0
    /\ interruptedBeforeResolved = FALSE
    /\ recordsAtExit = 0

Settle_never(current, outcome) == current

\* a promise settles once: later resolve/reject calls are no-ops
Settle(current, outcome) == IF current = "pending" THEN outcome ELSE current

\* setTimeout callback (1033-1036): kill the tree, reject with the timeout text
TimeoutExpires ==
    /\ UNCHANGED notRunner
    /\ timeout = "armed"
    /\ timeout' = "fired"
    /\ kills' = kills + 1
    /\ processResult' = Settle(processResult, "rejected")
    /\ rejection' = IF processResult = "pending" THEN TimeoutMessage ELSE rejection
    /\ UNCHANGED <<active, interrupted, stdout, stderr, cprocess, exitCode, errorEmitted,
                   stdoutDestroyed, resultPc, result, interruptCalls,
                   interruptedBeforeResolved,
                   recordsAtExit>>

\* timer state after clearTimeout(timeout): a fired timer stays fired
ClearTimeout(t) == IF t = "armed" THEN "cleared" ELSE t

\* cprocess.on("error") (1038-1041)
ProcessError ==
    /\ UNCHANGED notRunner
    /\ ~errorEmitted
    /\ errorEmitted' = TRUE
    /\ timeout' = ClearTimeout(timeout)
    /\ processResult' = Settle(processResult, "rejected")
    /\ rejection' = IF processResult = "pending" THEN ProcessErrorValue ELSE rejection
    /\ UNCHANGED <<active, interrupted, stdout, stderr, cprocess, exitCode, stdoutDestroyed,
                   resultPc, result, kills, interruptCalls, interruptedBeforeResolved,
                   recordsAtExit>>

ExitSettles_failOnNonZero(code) == IF code = 0 THEN "resolved" ELSE "rejected"

\* resolve(code) (1058): the promise resolves whatever the code is
ExitSettles(code) == "resolved"

\* cprocess.on("exit") (1054-1060)
ProcessExit(code) ==
    /\ UNCHANGED notRunner
    /\ cprocess = "running"
    /\ cprocess' = "exited"
    /\ exitCode' = code
    /\ timeout' = ClearTimeout(timeout)
    /\ processResult' = Settle(processResult, ExitSettles(code))
    /\ UNCHANGED <<active, interrupted, stdout, stderr, rejection, errorEmitted,
                   stdoutDestroyed, resultPc, result, kills, interruptCalls,
                   interruptedBeforeResolved>>
    /\ recordsAtExit' = Len(stdout)

\* cprocess.stdout.on("data") with one complete, well-formed line (1061-1069)
StdoutData(rec) ==
    /\ UNCHANGED notRunner
    /\ ~stdoutDestroyed
    /\ Len(stdout) < MaxRecords
    /\ stdout' = Append(stdout, rec)
    /\ UNCHANGED <<active, interrupted, stderr, processResult, rejection, timeout, cprocess,
                   exitCode, errorEmitted, stdoutDestroyed, resultPc, result, kills,
                   interruptCalls, interruptedBeforeResolved,
                   recordsAtExit>>

\* cprocess.stderr.on("data") (1042-1046): stderr is a stream of its own and
\* delivers whether or not stdout is closed
StderrData(chunk) ==
    /\ UNCHANGED notRunner
    /\ Len(stderr) < MaxStderr
    /\ stderr' = Append(stderr, chunk)
    /\ UNCHANGED <<active, interrupted, stdout, processResult, rejection, timeout, cprocess,
                   exitCode, errorEmitted, stdoutDestroyed, resultPc, result, kills,
                   interruptCalls, interruptedBeforeResolved,
                   recordsAtExit>>

\* the child's stdout stream closes (cprocess.stdout.destroyed becomes true)
StdoutClose ==
    /\ UNCHANGED notRunner
    /\ ~stdoutDestroyed
    /\ stdoutDestroyed' = TRUE
    /\ UNCHANGED <<active, interrupted, stdout, stderr, processResult, rejection, timeout,
                   cprocess, exitCode, errorEmitted, resultPc, result, kills, interruptCalls,
                   interruptedBeforeResolved,
                   recordsAtExit>>

AfterDrain_ignoreInterrupted(isInterrupted, out, errs) == RunnerOk(out, errs)

\* the value the async function returns once it is past the try block (1093-1105)
AfterDrain(isInterrupted, out, errs) ==
    IF isInterrupted THEN RunnerErr(KilledMessage) ELSE RunnerOk(out, errs)

AfterReject_keepOutput(value, out, errs) == RunnerOk(out, errs)

\* catch (error) { return new Err(new RuntimeError(error)); } (1089-1091): the
\* records and the stderr text collected so far are dropped
AfterReject(value, out, errs) == RunnerErr(value)

\* result: `await processResult` continues (1084, 1089-1091)
ResultAwait ==
    /\ UNCHANGED notRunner
    /\ resultPc = "await"
    /\ processResult # "pending"
    /\ IF processResult = "rejected"
         THEN /\ result' = AfterReject(rejection, stdout, stderr)
              /\ resultPc' = "done"
         ELSE /\ resultPc' = "drain"
              /\ UNCHANGED result
    /\ UNCHANGED <<active, interrupted, stdout, stderr, processResult, rejection, timeout,
                   cprocess, exitCode, errorEmitted, stdoutDestroyed, kills, interruptCalls,
                   interruptedBeforeResolved,
                   recordsAtExit>>

DrainDone_atOnce(destroyed) == TRUE

\* while (!cprocess.stdout.destroyed) (1086): the loop is left once the stream
\* is destroyed
DrainDone(destroyed) == destroyed

\* result: the while loop of 1085-1088 ends and the function returns (1093-1105);
\* while stdout is not destroyed the loop only sleeps, which changes nothing
ResultDrain ==
    /\ UNCHANGED notRunner
    /\ resultPc = "drain"
    /\ DrainDone(stdoutDestroyed)
    /\ result' = AfterDrain(interrupted, stdout, stderr)
    /\ resultPc' = "done"
    /\ UNCHANGED <<active, interrupted, stdout, stderr, processResult, rejection, timeout,
                   cprocess, exitCode, errorEmitted, stdoutDestroyed, kills, interruptCalls,
                   interruptedBeforeResolved,
                   recordsAtExit>>

ActiveAfterInterrupt_stays == TRUE

\* active = false (1110)
ActiveAfterInterrupt == FALSE

\* interrupt() (1108-1114)
Interrupt ==
    /\ UNCHANGED notRunner
    /\ interruptCalls < MaxInterrupts
    /\ interruptCalls' = interruptCalls + 1
    /\ interruptedBeforeResolved' = (interruptedBeforeResolved \/ result.st = "pending")
    /\ IF active
         THEN /\ active' = ActiveAfterInterrupt
              /\ interrupted' = TRUE
              /\ kills' = kills + 1
         ELSE UNCHANGED <<active, interrupted, kills>>
    /\ UNCHANGED <<stdout, stderr, processResult, rejection, timeout, cprocess, exitCode,
                   errorEmitted, stdoutDestroyed, resultPc, result, recordsAtExit>>

(***************************************************************************)
(* Response Validator (_checkLangsResponse, types.ts 972-996)              *)
(***************************************************************************)
\* shape-checkers, named after the type they test (createIs<T>())
Checkers == {"unknown", "tokenOrNull", "testResults"}

\* checker(data)
Accepts(checker, data) ==
    CASE checker = "unknown" -> TRUE
      [] checker = "tokenOrNull" -> data \in {DataObjA, DataNull}
      [] checker = "testResults" -> data = DataObjB
      [] OTHER -> FALSE

IsStringArray_never(data) == FALSE

\* is<string[]>(data)
IsStringArray(data) == data.tag = "strs"

\* data.join("\n")
RECURSIVE JoinWith(_, _)
JoinWith(items, sep) ==
    IF Len(items) = 0 THEN ""
    ELSE IF Len(items) = 1 THEN items[1]
    ELSE items[1] \o sep \o JoinWith(Tail(items), sep)

\* Result<_, Error>
LangsOk(v) == [ok |-> TRUE, val |-> v, kind |-> "", msg |-> "", detail |-> ""]
LangsErr(k, m, d) == [ok |-> FALSE, val |-> NoRecord, kind |-> k, msg |-> m, detail |-> d]

MessageOrNull_raw(message) == message

\* langsResponse.message || "null" (977)
MessageOrNull(message) == IF message = NullMsg \/ message = "" THEN "null" ELSE message

CrashPrefix == "Langs process crashed: "
UnexpectedTypeMessage == "Unexpected response data type."

CheckLangsResponse_shapeFirst(langsResponse, checker) ==
    LET message == MessageOrNull(langsResponse.message) IN
    IF ~Accepts(checker, langsResponse.data)
      THEN LangsErr("Error", UnexpectedTypeMessage, "")
    ELSE IF langsResponse.result = "error"
      THEN LangsErr("Error", message, "")
    ELSE IF langsResponse.status = "crashed"
      THEN IF IsStringArray(langsResponse.data)
             THEN LangsErr("RuntimeError", CrashPrefix \o message,
                           JoinWith(langsResponse.data.items, "\n"))
             ELSE LangsErr("Error", CrashPrefix \o message, "")
    ELSE LangsOk(langsResponse)

CheckLangsResponse_noShape(langsResponse, checker) ==
    LET message == MessageOrNull(langsResponse.message) IN
    IF langsResponse.status = "crashed"
      THEN LangsErr("Error", CrashPrefix \o message, "")
    ELSE IF langsResponse.result = "error"
      THEN LangsErr("Error", message, "")
    ELSE LangsOk(langsResponse)

\* _checkLangsResponse (972-996)
CheckLangsResponse(langsResponse, checker) ==
    LET message == MessageOrNull(langsResponse.message) IN
    IF langsResponse.status = "crashed"
      THEN IF IsStringArray(langsResponse.data)
             THEN LangsErr("RuntimeError", CrashPrefix \o message,
                           JoinWith(langsResponse.data.items, "\n"))
             ELSE LangsErr("Error", CrashPrefix \o message, "")
    ELSE IF langsResponse.result = "error"
      THEN LangsErr("Error", message, "")
    ELSE IF ~Accepts(checker, langsResponse.data)
      THEN LangsErr("Error", UnexpectedTypeMessage, "")
    ELSE LangsOk(langsResponse)

NoCheck == [rec |-> NoRecord, checker |-> ""]

ValidatorInit ==
    /\ checkedInput = NoCheck
    /\ checkedOutput = LangsErr("", "", "")

\* one application of _checkLangsResponse to a record and a checker
CheckResponse(rec, checker) ==
    /\ UNCHANGED notValidator
    /\ checkedInput' = [rec |-> rec, checker |-> checker]
    /\ checkedOutput' = CheckLangsResponse(rec, checker)

ValidatorNext == \E rec \in AllRecords, checker \in Checkers : CheckResponse(rec, checker)

RunnerNext ==
    \/ TimeoutExpires
    \/ ProcessError
    \/ \E code \in ExitCodes : ProcessExit(code)
    \/ \E rec \in RunnerRecords : StdoutData(rec)
    \/ \E chunk \in {"warn"} : StderrData(chunk)
    \/ StdoutClose
    \/ ResultAwait
    \/ ResultDrain
    \/ Interrupt

(***************************************************************************)
(* Helper-driven facade (_executeLangsCommand 937-967, runTests 736-749)   *)
(***************************************************************************)
\* argument lists the facade passes (langsArgs.args)
ArgLists == {<<"get-organizations">>, <<"get-exercise-details", "--exercise-id", "1">>}

\* const cacheKey = langsArgs.args.join("-") (942)
CacheKey(args) == JoinWith(args, "-")

\* argument lists of submitSubmissionFeedback (884-890) for two answers "a" and
\* "b", and for the single answer "a---feedback-2-b"
FeedbackArgLists ==
    { <<"send-feedback", "--feedback", "1", "a", "--feedback", "2", "b",
        "--feedback-url", "u">>,
      <<"send-feedback", "--feedback", "1", "a---feedback-2-b", "--feedback-url", "u">> }

\* argument lists of getCourseDetails (398) for two course ids
CourseArgLists ==
    { <<"get-course-details", "--course-id", "1">>,
      <<"get-course-details", "--course-id", "2">> }

KeyArgLists == FeedbackArgLists \cup CourseArgLists

CacheKeys == {CacheKey(args) : args \in ArgLists \cup KeyArgLists}

\* the checkers the model passes to _executeLangsCommand
ExecCheckers == {"unknown", "tokenOrNull"}

\* callers that may each have one _executeLangsCommand call in flight
Callers == {"a", "b"}

\* a caller that awaits each call before it makes the next
OneCaller == {"a"}

\* Map.get(key) === undefined
NoEntry == [present |-> FALSE, rec |-> NoRecord]
Entry(rec) == [present |-> TRUE, rec |-> rec]

\* "no data yet" in the bookkeeping of the claims
NoData == [tag |-> "none", items |-> << >>]

\* records a helper emits in this part of the model
LangsRecords ==
    { [status |-> "in-progress", result |-> "retrieved-data", data |-> DataNull,
       message |-> NullMsg],
      [status |-> "finished", result |-> "retrieved-data", data |-> DataObjA,
       message |-> NullMsg],
      [status |-> "finished", result |-> "retrieved-data", data |-> DataObjB,
       message |-> NullMsg],
      [status |-> "finished", result |-> "error", data |-> DataNull,
       message |-> "bad course id"],
      [status |-> "crashed", result |-> "error", data |-> DataStrs,
       message |-> NullMsg] }

\* sequences of at most n records
RECURSIVE SeqsUpTo(_, _)
SeqsUpTo(S, n) ==
    IF n = 0 THEN {<< >>}
    ELSE LET shorter == SeqsUpTo(S, n - 1)
         IN  shorter \cup {Append(q, x) : q \in shorter, x \in S}

\* what `await this._spawnLangsProcess(langsArgs).result` can give the facade,
\* which never calls interrupt()
ExecOutcomes ==
    {RunnerErr(TimeoutMessage), RunnerErr(ProcessErrorValue)}
        \cup {RunnerOk(o, << >>) : o \in SeqsUpTo(LangsRecords, MaxStdout)}

\* a runner Err handed on unchanged (`return result`, 955)
FromRunnerErr(outcome) == LangsErr(outcome.kind, outcome.msg, "")

PickLast_first(records) == records[1]

\* _.last(list) of a non-empty list
PickLast(records) == records[Len(records)]

\* lines 953-964: the result of a call once the process result is in
ExecAfterSpawn(outcome, checker) ==
    IF outcome.st = "err" THEN FromRunnerErr(outcome)
    ELSE IF Len(outcome.out) = 0 THEN LangsErr("Error", "No langs response received", "")
    ELSE CheckLangsResponse(PickLast(outcome.out), checker)

RunTestsAfterSpawn_dropErr(outcome) ==
    IF outcome.st = "err" \/ Len(outcome.out) = 0
      THEN LangsErr("Error", "Langs response missing", "")
    ELSE LET checked == CheckLangsResponse(PickLast(outcome.out), "testResults")
         IN  IF checked.ok THEN LangsOk(checked.val.data) ELSE checked

\* lines 736-749: the result of runTests once the process result is in
RunTestsAfterSpawn(outcome) ==
    IF outcome.st = "err" THEN FromRunnerErr(outcome)
    ELSE IF Len(outcome.out) = 0 THEN LangsErr("Error", "Langs response missing", "")
    ELSE LET checked == CheckLangsResponse(PickLast(outcome.out), "testResults")
         IN  IF checked.ok THEN LangsOk(checked.val.data) ELSE checked

CacheHit_unchecked(cache, key, checker, useCache) == useCache /\ cache[key].present

\* lines 943-946: the cache lookup; TRUE when the call is answered from the cache
CacheHit(cache, key, checker, useCache) ==
    /\ useCache
    /\ cache[key].present
    /\ Accepts(checker, cache[key].rec.data)

CacheWrite_otherKey(cache, key, res) ==
    IF res.ok THEN [k \in DOMAIN cache |-> IF k # key THEN Entry(res.val) ELSE cache[k]]
    ELSE cache

CacheWrite_evictOnErr(cache, key, res) ==
    IF res.ok THEN [cache EXCEPT ![key] = Entry(res.val)]
    ELSE [cache EXCEPT ![key] = NoEntry]

\* line 965 (reached only with an Ok result): this._rustCache.set(cacheKey, checked.val)
CacheWrite(cache, key, res) ==
    IF res.ok THEN [cache EXCEPT ![key] = Entry(res.val)] ELSE cache

Idle == [pc |-> "idle", args |-> << >>, checker |-> "", useCache |-> FALSE,
         stale |-> FALSE, staleData |-> NoData, spawns |-> 0]

\* what the claims keep of a runner outcome: how it ended, the record that was
\* last on stdout, and whether an earlier record was a crash or an error record
NoOutcome == [st |-> "none", msg |-> "", empty |-> TRUE, last |-> NoRecord,
              earlierBad |-> FALSE]
Summary(outcome) ==
    LET n == Len(outcome.out) IN
    [st |-> outcome.st, msg |-> outcome.msg, empty |-> (n = 0),
     last |-> IF n = 0 THEN NoRecord ELSE outcome.out[n],
     earlierBad |-> \E i \in 1..(n - 1) :
                       outcome.out[i].status = "crashed" \/ outcome.out[i].result = "error"]

NoReturn == [op |-> "none", key |-> "", args |-> << >>, checker |-> "", hit |-> FALSE,
             stale |-> FALSE, staleData |-> NoData, spawns |-> 0,
             outcome |-> NoOutcome, res |-> LangsErr("", "", ""),
             fresh |-> NoData, orig |-> NoData]

\* no runTests process is running
NoTestRun == [pc |-> "idle", id |-> 0]

LangsInit ==
    /\ rustCache = [k \in CacheKeys |-> NoEntry]
    /\ calls = [c \in Callers |-> Idle]
    /\ lastReturn = NoReturn
    /\ freshData = [k \in CacheKeys |-> NoData]
    /\ origData = [k \in CacheKeys |-> NoData]
    /\ entryArgs = [k \in CacheKeys |-> << >>]
    /\ testRun = NoTestRun

\* _executeLangsCommand up to its await (942-953): answer from the cache, or
\* spawn the helper process
ExecStart(c, args, checker, useCache) ==
    LET key == CacheKey(args) IN
    /\ UNCHANGED notLangs
    /\ calls[c].pc = "idle"
    /\ origData' = IF useCache THEN origData ELSE [origData EXCEPT ![key] = NoData]
    /\ UNCHANGED <<rustCache, freshData, entryArgs, testRun>>
    /\ IF CacheHit(rustCache, key, checker, useCache)
         THEN /\ lastReturn' =
                    [op |-> "exec", key |-> key, args |-> args, checker |-> checker,
                     hit |-> TRUE, stale |-> FALSE, staleData |-> NoData, spawns |-> 0,
                     outcome |-> NoOutcome,
                     res |-> LangsOk(rustCache[key].rec),
                     fresh |-> freshData[key], orig |-> origData[key]]
              /\ UNCHANGED calls
         ELSE /\ calls' = [calls EXCEPT ![c] =
                    [pc |-> "spawned", args |-> args, checker |-> checker,
                     useCache |-> useCache,
                     stale |-> (useCache /\ rustCache[key].present),
                     staleData |-> IF useCache /\ rustCache[key].present
                                     THEN rustCache[key].rec.data ELSE NoData,
                     spawns |-> 1]]
              /\ UNCHANGED lastReturn

\* _executeLangsCommand after its await (954-966)
ExecFinish(c, outcome) ==
    LET call == calls[c]
        key == CacheKey(call.args)
        res == ExecAfterSpawn(outcome, call.checker)
        rebase == res.ok /\ origData[key] = NoData
    IN
    /\ UNCHANGED notLangs
    /\ call.pc = "spawned"
    /\ UNCHANGED testRun
    /\ rustCache' = CacheWrite(rustCache, key, res)
    /\ calls' = [calls EXCEPT ![c] = Idle]
    /\ freshData' = IF res.ok THEN [freshData EXCEPT ![key] = res.val.data] ELSE freshData
    /\ origData' = IF rebase THEN [origData EXCEPT ![key] = res.val.data] ELSE origData
    /\ entryArgs' = IF res.ok THEN [entryArgs EXCEPT ![key] = call.args] ELSE entryArgs
    /\ lastReturn' =
           [op |-> "exec", key |-> "", args |-> << >>, checker |-> call.checker,
            hit |-> FALSE, stale |-> call.stale, staleData |-> call.staleData,
            spawns |-> call.spawns, outcome |-> Summary(outcome), res |-> res,
            fresh |-> NoData, orig |-> NoData]

LangsNext ==
    \/ \E c \in OneCaller, args \in ArgLists, checker \in ExecCheckers, useCache \in BOOLEAN :
          ExecStart(c, args, checker, useCache)
    \/ \E c \in OneCaller, outcome \in ExecOutcomes : ExecFinish(c, outcome)

(***************************************************************************)
(* downloadExercise and downloadOldExercise (types.ts 507-705)             *)
(***************************************************************************)
ExerciseIds == {1, 2}

\* submission ids; the archive of submission n and the archive of exercise n
\* are the same file <data path>/n.zip (515, 662)
SubmissionIds == {1}

\* WorkspaceManager.createExerciseDownloadPath, when it succeeds
CreateExerciseDownloadPath(entries, id) == entries \cup {id}

\* WorkspaceManager.deleteExercise
DeleteExercise(entries, id) == entries \ {id}

\* WorkspaceManager.getExercisePathById(id).err
PathMissing(entries, id) == id \notin entries

Compensate_keep(entries, id, failed) == entries

\* lines 559-562 and 597-600: if (result.err) { ...; await deleteExercise(id); }
Compensate(entries, id, failed) == IF failed THEN DeleteExercise(entries, id) ELSE entries

\* lines 564 and 604: what is returned after the download / extract step
ReturnAfterStep(failed) == "ok"

NoDownload == [id |-> 0, res |-> "none", failed |-> "", pathCreated |-> FALSE]

ConfigInit == insider = FALSE

NoDownloadCall == [details |-> "none", course |-> "none", found |-> FALSE,
                   exercisesBefore |-> {}]

NoOldCall == [pc |-> "idle", exerciseId |-> 0, submissionId |-> 0, res |-> "none",
              failed |-> ""]

DownloadInit ==
    /\ workspaceManager = FALSE
    /\ exercises = {}
    /\ archives = {}
    /\ downloadPc = "idle"
    /\ downloadId = 0
    /\ downloadReturn = NoDownload
    /\ downloadCall = NoDownloadCall
    /\ oldCall = NoOldCall

\* the user or the settings file changes the insider flag
SetInsider(flag) ==
    /\ insider # flag
    /\ insider' = flag

\* setWorkspaceManager (189-194) with a manager that knows the exercises
\* `known` from its storage; a second call throws and changes nothing
SetWorkspaceManager(known) ==
    /\ ~workspaceManager
    /\ workspaceManager' = TRUE
    /\ exercises' = known

DownloadSetWorkspaceManager(known) ==
    /\ UNCHANGED <<notDownload, insider>>
    /\ SetWorkspaceManager(known)
    /\ UNCHANGED <<archives, downloadPc, downloadId, downloadReturn, downloadCall, oldCall>>

\* downloadExercise is called (507-517): it throws without a workspace manager,
\* else getExerciseDetails(id, true) is awaited
DownloadStart(id) ==
    /\ UNCHANGED <<notDownload, insider>>
    /\ downloadPc = "idle"
    /\ UNCHANGED <<workspaceManager, exercises, archives, oldCall>>
    /\ IF ~workspaceManager
         THEN /\ downloadReturn' = [id |-> id, res |-> "throw", failed |-> "",
                                    pathCreated |-> FALSE]
              /\ downloadCall' = NoDownloadCall
              /\ UNCHANGED <<downloadPc, downloadId>>
         ELSE /\ downloadPc' = "details"
              /\ downloadId' = id
              /\ downloadCall' = [NoDownloadCall EXCEPT !.exercisesBefore = exercises]
              /\ UNCHANGED downloadReturn

\* the call returns res; failed names the step that failed, if one did
DownloadReturns(res, failed, created) ==
    /\ downloadPc' = "idle"
    /\ downloadReturn' = [id |-> downloadId, res |-> res, failed |-> failed,
                          pathCreated |-> created]
    /\ UNCHANGED downloadId

\* getExerciseDetails answered (517-522)
DetailsDone(ok) ==
    /\ UNCHANGED <<notDownload, insider>>
    /\ downloadPc = "details"
    /\ UNCHANGED <<workspaceManager, exercises, archives, oldCall>>
    /\ downloadCall' = [downloadCall EXCEPT !.details = IF ok THEN "ok" ELSE "err"]
    /\ IF ok
         THEN /\ downloadPc' = "course"
              /\ UNCHANGED <<downloadId, downloadReturn>>
         ELSE DownloadReturns("err", "details", FALSE)

Missing_never(found) == FALSE

\* if (!exercise) (528)
Missing(found) == ~found

\* getCourseDetails answered (522-532); found: the course lists the exercise
CourseDone(ok, found) ==
    /\ UNCHANGED <<notDownload, insider>>
    /\ downloadPc = "course"
    /\ UNCHANGED <<workspaceManager, exercises, archives, oldCall>>
    /\ downloadCall' = [downloadCall EXCEPT !.course = IF ok THEN "ok" ELSE "err",
                                            !.found = ok /\ found]
    /\ IF ~ok THEN DownloadReturns("err", "course", FALSE)
       ELSE IF Missing(found) THEN DownloadReturns("err", "find", FALSE)
       ELSE /\ downloadPc' = IF insider THEN "createPath" ELSE "httpDownload"
            /\ UNCHANGED <<downloadId, downloadReturn>>

\* helper path: createExerciseDownloadPath answered (534-545)
CreatePathDone(ok) ==
    /\ UNCHANGED <<notDownload, insider>>
    /\ downloadPc = "createPath"
    /\ UNCHANGED <<workspaceManager, archives, downloadCall, oldCall>>
    /\ IF ok
         THEN /\ exercises' = CreateExerciseDownloadPath(exercises, downloadId)
              /\ downloadPc' = "download"
              /\ UNCHANGED <<downloadId, downloadReturn>>
         ELSE /\ UNCHANGED exercises
              /\ DownloadReturns("err", "createPath", FALSE)

\* helper path: download-or-update-exercises answered (545-564).  On failure
\* deleteExercise(id) is called and awaited (561); removed: the manager drops
\* the entry during that call rather than when its promise settles
DownloadDone(ok, removed) ==
    /\ UNCHANGED <<notDownload, insider>>
    /\ downloadPc = "download"
    /\ UNCHANGED <<workspaceManager, archives, downloadCall, oldCall>>
    /\ IF ok
         THEN /\ UNCHANGED exercises
              /\ DownloadReturns(ReturnAfterStep(FALSE), "", TRUE)
         ELSE /\ exercises' = IF removed THEN DeleteExercise(exercises, downloadId)
                              ELSE exercises
              /\ downloadPc' = "deleteDownload"
              /\ UNCHANGED <<downloadId, downloadReturn>>

\* legacy path: downloadFile answered (566-577)
HttpDownloadDone(ok) ==
    /\ UNCHANGED <<notDownload, insider>>
    /\ downloadPc = "httpDownload"
    /\ UNCHANGED <<workspaceManager, exercises, downloadCall, oldCall>>
    /\ IF ok
         THEN /\ archives' = archives \cup {downloadId}
              /\ downloadPc' = "createPathLegacy"
              /\ UNCHANGED <<downloadId, downloadReturn>>
         ELSE /\ UNCHANGED archives
              /\ DownloadReturns("err", "httpDownload", FALSE)

\* legacy path: createExerciseDownloadPath answered (577-588)
CreatePathLegacyDone(ok) ==
    /\ UNCHANGED <<notDownload, insider>>
    /\ downloadPc = "createPathLegacy"
    /\ UNCHANGED <<workspaceManager, archives, downloadCall, oldCall>>
    /\ IF ok
         THEN /\ exercises' = CreateExerciseDownloadPath(exercises, downloadId)
              /\ downloadPc' = "extract"
              /\ UNCHANGED <<downloadId, downloadReturn>>
         ELSE /\ UNCHANGED exercises
              /\ DownloadReturns("err", "createPath", FALSE)

\* legacy path: extract-project answered (588-604).  On failure deleteExercise(id)
\* is called and awaited (599), and the archive stays until that has settled
ExtractDone(ok, removed) ==
    /\ UNCHANGED <<notDownload, insider>>
    /\ downloadPc = "extract"
    /\ UNCHANGED <<workspaceManager, downloadCall, oldCall>>
    /\ IF ok
         THEN /\ UNCHANGED exercises
              /\ archives' = archives \ {downloadId}
              /\ DownloadReturns(ReturnAfterStep(FALSE), "", TRUE)
         ELSE /\ exercises' = IF removed THEN DeleteExercise(exercises, downloadId)
                              ELSE exercises
              /\ downloadPc' = "deleteExtract"
              /\ UNCHANGED <<archives, downloadId, downloadReturn>>

\* deleteExercise(id) settled (561-564, 599-604): the entry is gone, on the legacy
\* path the archive is deleted (602), and the call returns
DeleteDone ==
    /\ UNCHANGED <<notDownload, insider>>
    /\ downloadPc \in {"deleteDownload", "deleteExtract"}
    /\ UNCHANGED <<workspaceManager, downloadCall, oldCall>>
    /\ exercises' = Compensate(exercises, downloadId, TRUE)
    /\ archives' = IF downloadPc = "deleteExtract" THEN archives \ {downloadId} ELSE archives
    /\ DownloadReturns(ReturnAfterStep(TRUE),
                       IF downloadPc = "deleteExtract" THEN "extract" ELSE "download", TRUE)

\* downloadOldExercise returns
OldReturns(res, failed) ==
    oldCall' = [oldCall EXCEPT !.pc = "idle", !.res = res, !.failed = failed]

\* downloadOldExercise is called (608-657): it throws without a workspace
\* manager, returns the path error of an unknown exercise, else asks the legacy
\* helper for the packaging configuration
OldDownloadStart(exerciseId, submissionId) ==
    /\ UNCHANGED <<notDownload, insider>>
    /\ oldCall.pc = "idle"
    /\ UNCHANGED <<workspaceManager, exercises, archives, downloadPc, downloadId,
                   downloadReturn, downloadCall>>
    /\ oldCall' = IF ~workspaceManager
                    THEN [pc |-> "idle", exerciseId |-> exerciseId,
                          submissionId |-> submissionId, res |-> "throw", failed |-> ""]
                  ELSE IF PathMissing(exercises, exerciseId)
                    THEN [pc |-> "idle", exerciseId |-> exerciseId,
                          submissionId |-> submissionId, res |-> "err", failed |-> "path"]
                  ELSE [pc |-> "packaging", exerciseId |-> exerciseId,
                        submissionId |-> submissionId, res |-> "none", failed |-> ""]

\* get-exercise-packaging-configuration answered (650-660)
OldPackagingDone(ok) ==
    /\ UNCHANGED <<notDownload, insider>>
    /\ oldCall.pc = "packaging"
    /\ UNCHANGED <<workspaceManager, exercises, archives, downloadPc, downloadId,
                   downloadReturn, downloadCall>>
    /\ IF ok THEN oldCall' = [oldCall EXCEPT !.pc = "download"]
       ELSE OldReturns("err", "packaging")

\* downloadFile answered (662-672): the archive <data path>/<submissionId>.zip
OldDownloadFileDone(ok) ==
    /\ UNCHANGED <<notDownload, insider>>
    /\ oldCall.pc = "download"
    /\ UNCHANGED <<workspaceManager, exercises, downloadPc, downloadId, downloadReturn,
                   downloadCall>>
    /\ IF ok
         THEN /\ archives' = archives \cup {oldCall.submissionId}
              /\ oldCall' = [oldCall EXCEPT !.pc = "extract"]
         ELSE /\ UNCHANGED archives
              /\ OldReturns("err", "download")

\* extract-project answered (674-704): a failure and a path error leave the
\* archive and return Err; otherwise the student files are moved (693-699);
\* moved: every path of studentFilePaths is in the extracted archive, so that
\* no renameSync throws.  A throw rejects the call and leaves the archive
\* (701-702 are not reached); else the archive is deleted (701)
OldExtractDone(ok, moved) ==
    /\ UNCHANGED <<notDownload, insider>>
    /\ oldCall.pc = "extract"
    /\ UNCHANGED <<workspaceManager, exercises, downloadPc, downloadId, downloadReturn,
                   downloadCall>>
    /\ IF ~ok
         THEN /\ UNCHANGED archives
              /\ OldReturns("err", "extract")
       ELSE IF PathMissing(exercises, oldCall.exerciseId)
         THEN /\ UNCHANGED archives
              /\ OldReturns("err", "path")
       ELSE IF ~moved
         THEN /\ UNCHANGED archives
              /\ OldReturns("throw", "move")
       ELSE /\ archives' = archives \ {oldCall.submissionId}
            /\ OldReturns("ok", "")

\* the insider flag changes while downloadExercise runs or between calls
DownloadSetInsider(flag) ==
    /\ UNCHANGED <<notDownload, downloadVars>>
    /\ SetInsider(flag)

DownloadNext ==
    \/ \E known \in SUBSET ExerciseIds : DownloadSetWorkspaceManager(known)
    \/ \E id \in ExerciseIds : DownloadStart(id)
    \/ \E ok \in BOOLEAN : DetailsDone(ok)
    \/ \E ok \in BOOLEAN, found \in BOOLEAN : CourseDone(ok, found)
    \/ \E ok \in BOOLEAN : CreatePathDone(ok)
    \/ \E ok \in BOOLEAN, removed \in BOOLEAN : DownloadDone(ok, removed)
    \/ \E ok \in BOOLEAN : HttpDownloadDone(ok)
    \/ \E ok \in BOOLEAN : CreatePathLegacyDone(ok)
    \/ \E ok \in BOOLEAN, removed \in BOOLEAN : ExtractDone(ok, removed)
    \/ DeleteDone
    \/ \E exerciseId \in ExerciseIds, submissionId \in SubmissionIds :
          OldDownloadStart(exerciseId, submissionId)
    \/ \E ok \in BOOLEAN : OldPackagingDone(ok)
    \/ \E ok \in BOOLEAN : OldDownloadFileDone(ok)
    \/ \E ok \in BOOLEAN, moved \in BOOLEAN : OldExtractDone(ok, moved)
    \/ \E flag \in BOOLEAN : DownloadSetInsider(flag)

(***************************************************************************)
(* HTTP fetch wrapper (_tmcApiRequest, types.ts 1302-1362)                 *)
(***************************************************************************)
Methods == {"get", "post"}
Endpoints == {"org.json", "core/courses/1"}

\* method + endpoint (1310, 1336)
ApiKey(method, endpoint) == method \o endpoint

ApiKeys == {ApiKey(m, e) : m \in Methods, e \in Endpoints}

\* response objects that pass is<TMCApiResponse>
ApiObjects == {"obj1", "obj2"}

\* status line of a response the server sends
StatusLines ==
    { [status |-> "200", text |-> "OK", ok |-> TRUE],
      [status |-> "403", text |-> "Forbidden", ok |-> FALSE],
      [status |-> "404", text |-> "Not Found", ok |-> FALSE],
      [status |-> "500", text |-> "Internal Server Error", ok |-> FALSE] }

\* bodies: JSON that is a TMCApiResponse, JSON with an error field, other JSON
\* (no error field), and text that is not JSON
Bodies ==
    {[kind |-> "object", content |-> o] : o \in ApiObjects}
        \cup { [kind |-> "jsonError", content |-> "Invalid id"],
               [kind |-> "json", content |-> "{}"],
               [kind |-> "text", content |-> "<html>"] }

\* what `await fetch.default(url, request)` gives: a response, or a thrown error
FetchOutcomes ==
    {[thrown |-> TRUE, line |-> [status |-> "", text |-> "", ok |-> FALSE],
      body |-> [kind |-> "none", content |-> ""]]}
        \cup {[thrown |-> FALSE, line |-> l, body |-> b] : l \in StatusLines, b \in Bodies}

ApiOk(v) == [ok |-> TRUE, val |-> v, kind |-> "", msg |-> ""]
ApiErr(k, m) == [ok |-> FALSE, val |-> "", kind |-> k, msg |-> m]

\* node-fetch: response.json() rejects with a FetchError when the body is not
\* JSON, and a body can be read once: response.text() after response.json()
\* rejects with a TypeError
JsonThrows(body) == body.kind = "text"
FetchErrorName == "FetchError"
BodyUsedErrorName == "TypeError"

\* catch (error) of 1358-1361
ConnectionErr(name) == ApiErr("ConnectionError", "Connection error: " \o name)

\* (await response.json())?.error || (await response.text()) (1353)
ErrorText(body) ==
    IF JsonThrows(body) THEN [thrown |-> TRUE, name |-> FetchErrorName, text |-> ""]
    ELSE IF body.kind = "jsonError"
      THEN [thrown |-> FALSE, name |-> "", text |-> body.content]
    ELSE [thrown |-> TRUE, name |-> BodyUsedErrorName, text |-> ""]

\* lines 1329-1361: the result of the request once fetch has answered
AfterFetch(outcome) ==
    IF outcome.thrown THEN ConnectionErr(FetchErrorName)
    ELSE IF outcome.line.ok
      THEN IF JsonThrows(outcome.body)
             THEN ApiErr("ApiError", "Response not in JSON format: " \o FetchErrorName)
           ELSE IF outcome.body.kind = "object" THEN ApiOk(outcome.body.content)
           ELSE ApiErr("ApiError", "Unexpected response type")
    ELSE IF outcome.line.status = "403" THEN ApiErr("AuthorizationError", "403 - Forbidden")
    ELSE LET errorText == ErrorText(outcome.body) IN
         IF errorText.thrown THEN ConnectionErr(errorText.name)
         ELSE ApiErr("ApiError", outcome.line.status \o " - " \o outcome.line.text
                                   \o " - " \o errorText.text)

NoApiEntry == ""

ApiCacheWrite_always(store, key, cache, res) ==
    IF res.ok THEN [store EXCEPT ![key] = res.val] ELSE store

\* if (cache) { this._cache.set(method + endpoint, responseObject); } (1335-1337)
ApiCacheWrite(store, key, cache, res) ==
    IF cache /\ res.ok THEN [store EXCEPT ![key] = res.val] ELSE store

NoApiCall == [pc |-> "idle", key |-> "", cache |-> FALSE]

\* stored: the entry for the key when the call was made; fetches: network
\* requests the call made
NoApiReturn == [op |-> "none", key |-> "", cache |-> FALSE, stored |-> NoApiEntry,
                fetches |-> 0, status |-> "", body |-> [kind |-> "none", content |-> ""],
                res |-> ApiErr("", "")]

ApiInit ==
    /\ apiCache = [k \in ApiKeys |-> NoApiEntry]
    /\ apiCall = NoApiCall
    /\ apiReturn = NoApiReturn

\* _tmcApiRequest is called (1302-1330): answer from the cache, or send the
\* request
ApiRequest(method, endpoint, cache) ==
    LET key == ApiKey(method, endpoint) IN
    /\ UNCHANGED notApi
    /\ apiCall.pc = "idle"
    /\ UNCHANGED apiCache
    /\ IF cache /\ apiCache[key] # NoApiEntry
         THEN /\ apiReturn' = [op |-> "request", key |-> key, cache |-> cache,
                               stored |-> apiCache[key], fetches |-> 0, status |-> "",
                               body |-> [kind |-> "none", content |-> ""],
                               res |-> ApiOk(apiCache[key])]
              /\ UNCHANGED apiCall
         ELSE /\ apiCall' = [pc |-> "fetch", key |-> key, cache |-> cache]
              /\ UNCHANGED apiReturn

\* fetch answered (1330-1361)
ApiResponse(outcome) ==
    LET res == AfterFetch(outcome) IN
    /\ UNCHANGED notApi
    /\ apiCall.pc = "fetch"
    /\ apiCache' = ApiCacheWrite(apiCache, apiCall.key, apiCall.cache, res)
    /\ apiCall' = NoApiCall
    /\ apiReturn' = [op |-> "request", key |-> apiCall.key, cache |-> apiCall.cache,
                     stored |-> apiCache[apiCall.key], fetches |-> 1,
                     status |-> outcome.line.status, body |-> outcome.body, res |-> res]

ApiNext ==
    \/ \E method \in Methods, endpoint \in Endpoints, cache \in BOOLEAN :
          ApiRequest(method, endpoint, cache)
    \/ \E outcome \in FetchOutcomes : ApiResponse(outcome)

(***************************************************************************)
(* authenticate, deauthenticate, isAuthenticated (types.ts 204-301)        *)
(***************************************************************************)
\* this._token === undefined; the helper is logged out
NoToken == "none"

\* tokens the server hands out
Tokens == {"t1", "t2"}

\* how the helper answers the "logged-in" command: with an Err, with its login
\* state ("not-logged-in", or "logged-in" and its token as data), or with any
\* other record the checker of 272 lets through
LoggedInAnswers == {"err", "state", "other"}

\* how this._oauth2.owner.getToken ends (232-241)
OauthOutcomes == {"ok", "EAUTH", "EUNAVAILABLE", "unknown"}

NoAuthCall == [op |-> "none", forced |-> FALSE, tokenBefore |-> NoToken,
               storedBefore |-> NoToken, commands |-> 0]

\* commands: how many helper commands, OAuth exchanges and server requests the
\* call started
NoAuthReturn == [op |-> "none", res |-> "none", val |-> FALSE, kind |-> "",
                 tokenBefore |-> NoToken, storedBefore |-> NoToken, commands |-> 0,
                 synced |-> FALSE, helperAtCheck |-> NoToken, tokenAtCheck |-> NoToken]

AuthInit ==
    /\ token = NoToken
    /\ storedToken = NoToken
    /\ langsToken = NoToken
    /\ authPc = "idle"
    /\ authCall = NoAuthCall
    /\ authReturn = NoAuthReturn
    /\ lastWritten = NoToken

\* isInsider === true || this._isInsider() (212, 269)
UsesLangs(forced, flag) == forced \/ flag

AfterStatusCheck_keep(current, reported) == current

\* lines 294-298: with "logged-in" and token data the local token is replaced
AfterStatusCheck(current, reported) == IF reported # NoToken THEN reported ELSE current

TokenPresent_never(current) == FALSE

\* return new Ok(this._token !== undefined) (300)
TokenPresent(current) == current # NoToken

AfterLogout_eager(current, failed) == NoToken

\* lines 255-259: the token is cleared unless the logout command failed
AfterLogout(current, failed) == IF failed THEN current ELSE NoToken

\* the call in flight returns
AuthReturns(res, val, kind, synced, helperSeen, tokenSeen) ==
    /\ authPc' = "idle"
    /\ authCall' = NoAuthCall
    /\ authReturn' = [op |-> authCall.op, res |-> res, val |-> val, kind |-> kind,
                      tokenBefore |-> authCall.tokenBefore,
                      storedBefore |-> authCall.storedBefore,
                      commands |-> authCall.commands,
                      synced |-> synced, helperAtCheck |-> helperSeen,
                      tokenAtCheck |-> tokenSeen]

\* a call that ends without ever suspending
AuthReturnsAtOnce(op, res, val) ==
    /\ authPc' = "idle"
    /\ authCall' = NoAuthCall
    /\ authReturn' = [op |-> op, res |-> res, val |-> val, kind |-> "",
                      tokenBefore |-> token, storedBefore |-> storedToken,
                      commands |-> 0,
                      synced |-> FALSE, helperAtCheck |-> NoToken,
                      tokenAtCheck |-> NoToken]

AuthCalled(op, forced, pc) ==
    /\ authPc' = pc
    /\ authCall' = [op |-> op, forced |-> forced, tokenBefore |-> token,
                    storedBefore |-> storedToken, commands |-> 1]
    /\ UNCHANGED authReturn

\* the call in flight starts one more command
AuthContinues(pc) ==
    /\ authPc' = pc
    /\ authCall' = [authCall EXCEPT !.commands = @ + 1]
    /\ UNCHANGED authReturn

TokenExists_never(current) == FALSE

\* if (this._token) (209)
TokenExists(current) == current # NoToken


\* if (!this._token) (493)
NotLoggedIn(current) == current = NoToken

StorageUpdate_ignored(stored, data) == stored

\* this._storage.updateAuthenticationToken(this._token.data) (243): the persisted
\* value becomes the data of the token just assigned
StorageUpdate(stored, data) == data

\* authenticate is called (204-220, 231-232)
Authenticate(forced) ==
    /\ UNCHANGED <<notAuth, insider>>
    /\ authPc = "idle"
    /\ UNCHANGED <<token, storedToken, langsToken, lastWritten>>
    /\ IF TokenExists(token) THEN AuthReturnsAtOnce("authenticate", "throw", FALSE)
       ELSE IF UsesLangs(forced, insider) THEN AuthCalled("authenticate", forced, "login")
       ELSE AuthCalled("authenticate", forced, "oauth")

\* the helper's login command answered (213-228); on success authenticate calls
\* this.isAuthenticated(), which reads the insider flag again (269)
LoginDone(ok, tok) ==
    /\ UNCHANGED <<notAuth, insider>>
    /\ authPc = "login"
    /\ UNCHANGED <<token, storedToken>>
    /\ IF ~ok
         THEN /\ UNCHANGED <<langsToken, lastWritten>>
              /\ AuthReturns("err", FALSE, "AuthenticationError", FALSE, NoToken, NoToken)
         ELSE /\ langsToken' = tok
              /\ lastWritten' = tok
              /\ IF UsesLangs(FALSE, insider)
                   THEN AuthContinues("loggedIn")
                   ELSE AuthReturns("ok", token # NoToken, "", FALSE, NoToken, NoToken)

\* the OAuth2 password exchange answered (231-243)
OauthDone(outcome, tok) ==
    /\ UNCHANGED <<notAuth, insider>>
    /\ authPc = "oauth"
    /\ UNCHANGED langsToken
    /\ IF outcome = "ok"
         THEN /\ token' = tok
              /\ storedToken' = StorageUpdate(storedToken, tok)
              /\ lastWritten' = tok
              /\ AuthReturns("ok", TRUE, "", FALSE, NoToken, NoToken)
         ELSE /\ UNCHANGED <<token, storedToken, lastWritten>>
              /\ AuthReturns("err", FALSE,
                             CASE outcome = "EAUTH" -> "AuthenticationError"
                               [] outcome = "EUNAVAILABLE" -> "ConnectionError"
                               [] OTHER -> "Error",
                             FALSE, NoToken, NoToken)

\* deauthenticate is called (249-254, 259-261)
Deauthenticate ==
    /\ UNCHANGED <<notAuth, insider>>
    /\ authPc = "idle"
    /\ UNCHANGED langsToken
    /\ IF insider
         THEN /\ UNCHANGED <<token, storedToken, lastWritten>>
              /\ AuthCalled("deauthenticate", FALSE, "logout")
         ELSE /\ token' = NoToken
              /\ storedToken' = NoToken
              /\ lastWritten' = NoToken
              /\ AuthReturnsAtOnce("deauthenticate", "ok", FALSE)

\* the helper's logout command answered (251-261)
LogoutDone(ok) ==
    /\ UNCHANGED <<notAuth, insider>>
    /\ authPc = "logout"
    /\ langsToken' = IF ok THEN NoToken ELSE langsToken
    /\ token' = AfterLogout(token, ~ok)
    /\ storedToken' = AfterLogout(storedToken, ~ok)
    /\ lastWritten' = IF ok THEN NoToken ELSE lastWritten
    /\ IF ok THEN AuthReturns("ok", FALSE, "", TRUE, NoToken, NoToken)
       ELSE AuthReturns("err", FALSE, "Error", FALSE, NoToken, NoToken)

\* isAuthenticated is called (268-273, 300)
IsAuthenticated(forced) ==
    /\ UNCHANGED <<notAuth, insider>>
    /\ authPc = "idle"
    /\ UNCHANGED <<token, storedToken, langsToken, lastWritten>>
    /\ IF UsesLangs(forced, insider) THEN AuthCalled("isAuthenticated", forced, "loggedIn")
       ELSE AuthReturnsAtOnce("isAuthenticated", "ok", TokenPresent(token))

\* the helper's logged-in command answered (270-300), in isAuthenticated itself
\* or in the isAuthenticated call that ends authenticate (227-228)
LoggedInDone(answer) ==
    /\ UNCHANGED <<notAuth, insider>>
    /\ authPc = "loggedIn"
    /\ UNCHANGED langsToken
    /\ IF answer = "err"
         THEN /\ UNCHANGED <<token, storedToken, lastWritten>>
              /\ AuthReturns("err", FALSE, "Error", FALSE, NoToken, NoToken)
       ELSE IF answer = "other"
         THEN /\ UNCHANGED <<token, storedToken, lastWritten>>
              /\ AuthReturns("ok", TokenPresent(token), "", FALSE, langsToken, token)
       ELSE IF langsToken = NoToken /\ token = NoToken
         THEN /\ UNCHANGED <<token, storedToken, lastWritten>>
              /\ AuthReturns("ok", FALSE, "", TRUE, langsToken, token)
       ELSE IF langsToken = NoToken
         THEN /\ UNCHANGED <<token, storedToken, lastWritten>>
              /\ AuthContinues("setToken")
       ELSE /\ token' = AfterStatusCheck(token, langsToken)
            /\ storedToken' = AfterStatusCheck(storedToken, langsToken)
            /\ lastWritten' = langsToken
            /\ AuthReturns("ok", TokenPresent(token'), "", TRUE, langsToken, token)

\* the helper's login --set-access-token command answered (284-300)
SetTokenDone(ok) ==
    /\ UNCHANGED <<notAuth, insider>>
    /\ authPc = "setToken"
    /\ UNCHANGED <<token, storedToken>>
    /\ IF ok
         THEN /\ langsToken' = token
              /\ lastWritten' = token
              /\ AuthReturns("ok", TokenPresent(token), "", TRUE, NoToken, token)
         ELSE /\ UNCHANGED <<langsToken, lastWritten>>
              /\ AuthReturns("err", FALSE, "Error", FALSE, NoToken, NoToken)

\* getSubmissionStatus is called (490-499): it raises without a token, else the
\* server is asked
GetSubmissionStatus ==
    /\ UNCHANGED <<notAuth, insider>>
    /\ authPc = "idle"
    /\ UNCHANGED <<token, storedToken, langsToken, lastWritten>>
    /\ IF NotLoggedIn(token) THEN AuthReturnsAtOnce("getSubmissionStatus", "throw", FALSE)
       ELSE AuthCalled("getSubmissionStatus", FALSE, "api")

\* response objects that pass createIs<SubmissionStatusReport>() (498)
IsSubmissionStatusReport(object) == object = "obj1"

\* _checkApiResponse (1280-1291): an Ok value that fails the checker becomes an
\* ApiError, an Err is handed on with the error it carries
CheckApiResponse(res, accepted) ==
    IF res.ok
      THEN IF accepted THEN res ELSE ApiErr("ApiError", "Incorrect response type")
    ELSE res

\* _checkApiResponse(_tmcApiRequest(url), checker) answered (496-499, 1280-1291,
\* 1329-1361): the Err is the one the request or the type check produced
SubmissionStatusDone(outcome) ==
    LET request == AfterFetch(outcome)
        res == CheckApiResponse(request, request.ok /\ IsSubmissionStatusReport(request.val))
    IN
    /\ UNCHANGED <<notAuth, insider>>
    /\ authPc = "api"
    /\ UNCHANGED <<token, storedToken, langsToken, lastWritten>>
    /\ IF res.ok THEN AuthReturns("ok", FALSE, "", FALSE, NoToken, NoToken)
       ELSE AuthReturns("err", FALSE, res.kind, FALSE, NoToken, NoToken)

\* the insider flag changes while a call runs or between calls
AuthSetInsider(flag) ==
    /\ UNCHANGED <<notAuth, authVars>>
    /\ SetInsider(flag)

AuthNext ==
    \/ \E forced \in BOOLEAN : Authenticate(forced)
    \/ \E ok \in BOOLEAN, tok \in Tokens : LoginDone(ok, tok)
    \/ \E outcome \in OauthOutcomes, tok \in Tokens : OauthDone(outcome, tok)
    \/ Deauthenticate
    \/ \E ok \in BOOLEAN : LogoutDone(ok)
    \/ \E forced \in BOOLEAN : IsAuthenticated(forced)
    \/ \E answer \in LoggedInAnswers : LoggedInDone(answer)
    \/ \E ok \in BOOLEAN : SetTokenDone(ok)
    \/ GetSubmissionStatus
    \/ \E outcome \in FetchOutcomes : SubmissionStatusDone(outcome)
    \/ \E flag \in BOOLEAN : AuthSetInsider(flag)

(***************************************************************************)
(* _executeLangsCommand for argument lists that differ in a value (942)    *)
(***************************************************************************)
\* what the helper answers here: one of two validated records, or no answer
\* before the timeout
KeyOutcomes ==
    {RunnerErr(TimeoutMessage)}
        \cup {RunnerOk(<<rec>>, << >>) :
                  rec \in {r \in LangsRecords :
                              r.status = "finished" /\ r.result = "retrieved-data"}}

LangsKeysNext ==
    \/ \E c \in OneCaller, args \in KeyArgLists, useCache \in BOOLEAN :
          ExecStart(c, args, "unknown", useCache)
    \/ \E c \in OneCaller, outcome \in KeyOutcomes : ExecFinish(c, outcome)

(***************************************************************************)
(* One helper-driven call on a fresh service object, for every final       *)
(* record of the response schema (937-967, 736-749)                        *)
(***************************************************************************)
\* what the runner can hand to the call: an Err, no record at all, or records
\* that end in any record of the schema
CallOutcomes ==
    {RunnerErr(TimeoutMessage), RunnerErr(ProcessErrorValue), RunnerOk(<< >>, << >>)}
        \cup {RunnerOk(Append(earlier, rec), << >>) :
                  earlier \in SeqsUpTo(LangsRecords, MaxStdout - 1), rec \in AllRecords}

\* the Err of getExercisePathById, handed on unchanged (720-723); its text is the
\* workspace manager's
PathErr == LangsErr("Error", "exercise path not found", "")

\* setWorkspaceManager, seen from the helper-driven calls
LangsSetWorkspaceManager(known) ==
    /\ UNCHANGED <<runnerVars, validatorVars, langsVars, insider, authVars, apiVars, loginVars,
                   legacy, overlapVars, pairVars, reader>>
    /\ SetWorkspaceManager(known)
    /\ UNCHANGED <<archives, downloadPc, downloadId, downloadReturn, downloadCall, oldCall>>

\* runTests up to its return (713-751): it throws without a workspace manager,
\* returns the resolved path error and a no-op interrupt for an exercise the
\* manager has no path for, else spawns the process and returns the pending
\* result with the runner's interrupt
RunTestsCall(id) ==
    /\ UNCHANGED notLangs
    /\ testRun.pc = "idle"
    /\ UNCHANGED <<rustCache, calls, freshData, origData, entryArgs>>
    /\ IF ~workspaceManager
         THEN /\ lastReturn' = [NoReturn EXCEPT !.op = "runTestsThrow"]
              /\ UNCHANGED testRun
       ELSE IF PathMissing(exercises, id)
         THEN /\ lastReturn' = [NoReturn EXCEPT !.op = "runTests", !.checker = "testResults",
                                                !.res = PathErr]
              /\ UNCHANGED testRun
       ELSE /\ testRun' = [pc |-> "running", id |-> id]
            /\ UNCHANGED lastReturn

\* the .then callback of 736-749 runs on the result of the runner
RunTestsThen(outcome) ==
    /\ UNCHANGED notLangs
    /\ testRun.pc = "running"
    /\ testRun' = NoTestRun
    /\ UNCHANGED <<rustCache, calls, freshData, origData, entryArgs>>
    /\ lastReturn' =
           [op |-> "runTests", key |-> "", args |-> << >>, checker |-> "testResults",
            hit |-> FALSE, stale |-> FALSE, staleData |-> NoData, spawns |-> 1,
            outcome |-> Summary(outcome), res |-> RunTestsAfterSpawn(outcome),
            fresh |-> NoData, orig |-> NoData]

\* exercise ids runTests is called with, and the exercises the workspace
\* manager has a path for
TestIds == {1, 2}
KnownToManager == {{1}}

\* the first helper-driven call made on the service object, up to its return
LangsCallNext ==
    /\ lastReturn = NoReturn
    /\ \/ \E known \in KnownToManager : LangsSetWorkspaceManager(known)
       \/ \E c \in OneCaller, args \in ArgLists, checker \in Checkers :
              ExecStart(c, args, checker, TRUE)
       \/ \E c \in OneCaller, outcome \in CallOutcomes : ExecFinish(c, outcome)
       \/ \E id \in TestIds : RunTestsCall(id)
       \/ \E outcome \in CallOutcomes \cup {RunnerErr(KilledMessage)} : RunTestsThen(outcome)

(***************************************************************************)
(* Helper-driven calls that overlap: two callers of _executeLangsCommand   *)
(* and a runTests call (937-967, 713-752)                                  *)
(***************************************************************************)
\* what a process gives here: a failure, no record, or one record
ShortOutcomes ==
    {RunnerErr(TimeoutMessage), RunnerOk(<< >>, << >>)}
        \cup {RunnerOk(<<rec>>, << >>) : rec \in LangsRecords}

\* the overlapping calls are made for one signature
PairArgLists == {<<"get-organizations">>}

LangsPairNext ==
    \/ \E known \in KnownToManager : LangsSetWorkspaceManager(known)
    \/ \E c \in Callers, args \in PairArgLists, checker \in ExecCheckers, useCache \in BOOLEAN :
          ExecStart(c, args, checker, useCache)
    \/ \E c \in Callers, outcome \in ShortOutcomes : ExecFinish(c, outcome)
    \/ \E id \in TestIds : RunTestsCall(id)
    \/ \E outcome \in ShortOutcomes \cup {RunnerErr(KilledMessage)} :
          RunTestsThen(outcome)

(***************************************************************************)
(* _executeLangsCommand on top of the Process Runner (937-967)             *)
(***************************************************************************)
\* a call that found nothing in the cache spawned the process of the runner
\* part; once its result is in, lines 954-966 run on it
ExecOverRunner(args, checker) ==
    LET key == CacheKey(args)
        res == ExecAfterSpawn(result, checker)
    IN
    /\ UNCHANGED <<validatorVars, insider, downloadVars, authVars, apiVars, loginVars, legacy,
                   overlapVars, pairVars, reader>>
    /\ UNCHANGED runnerVars
    /\ resultPc = "done"
    /\ lastReturn = NoReturn
    /\ ~CacheHit(rustCache, key, checker, TRUE)
    /\ rustCache' = CacheWrite(rustCache, key, res)
    /\ lastReturn' =
           [op |-> "exec", key |-> key, args |-> << >>, checker |-> checker,
            hit |-> FALSE, stale |-> FALSE, staleData |-> NoData, spawns |-> 1,
            outcome |-> Summary(result), res |-> res,
            fresh |-> NoData, orig |-> NoData]
    /\ entryArgs' = IF res.ok THEN [entryArgs EXCEPT ![key] = args] ELSE entryArgs
    /\ UNCHANGED <<calls, freshData, origData, testRun>>

RunnerLangsNext ==
    \/ RunnerNext
    \/ \E args \in ArgLists, checker \in ExecCheckers : ExecOverRunner(args, checker)

(***************************************************************************)
(* runTests on top of the Process Runner (713-752)                         *)
(***************************************************************************)
\* a final record whose data has the test-results shape
RecTestResults ==
    [status |-> "finished", result |-> "executed-command", data |-> DataObjB, message |-> NullMsg]

\* records the run-tests process emits: RecFinished carries data of another shape
RunTestsRecords == {RecFinished, RecTestResults}

\* the .then callback of 736-749 runs on the resolved runner result; the caller
\* holds the interrupt of the same runner (751)
RunTestsOverRunner ==
    /\ UNCHANGED <<validatorVars, insider, downloadVars, authVars, apiVars, loginVars, legacy,
                   overlapVars, pairVars, reader>>
    /\ UNCHANGED runnerVars
    /\ resultPc = "done"
    /\ lastReturn = NoReturn
    /\ lastReturn' =
           [op |-> "runTests", key |-> "", args |-> << >>, checker |-> "testResults",
            hit |-> FALSE, stale |-> FALSE, staleData |-> NoData, spawns |-> 1,
            outcome |-> Summary(result), res |-> RunTestsAfterSpawn(result),
            fresh |-> NoData, orig |-> NoData]
    /\ UNCHANGED <<rustCache, calls, freshData, origData, entryArgs, testRun>>

RunTestsNext ==
    \/ TimeoutExpires
    \/ ProcessError
    \/ \E code \in ExitCodes : ProcessExit(code)
    \/ \E rec \in RunTestsRecords : StdoutData(rec)
    \/ \E chunk \in {"warn"} : StderrData(chunk)
    \/ StdoutClose
    \/ ResultAwait
    \/ ResultDrain
    \/ Interrupt
    \/ RunTestsOverRunner

(***************************************************************************)
(* The process authenticate spawns on the helper-driven path               *)
(* (types.ts 204-220, 937-953, 1003-1026)                                  *)
(***************************************************************************)
Usernames == {"student", "teacher", "YQ=="}

\* passwords as the bytes Buffer.from(password) gives: "", "a", "pw", "abc"
Passwords == {<< >>, <<97>>, <<112, 119>>, <<97, 98, 99>>}

Base64Alphabet ==
    <<"A", "B", "C", "D", "E", "F", "G", "H", "I", "J", "K", "L", "M", "N", "O", "P",
      "Q", "R", "S", "T", "U", "V", "W", "X", "Y", "Z", "a", "b", "c", "d", "e", "f",
      "g", "h", "i", "j", "k", "l", "m", "n", "o", "p", "q", "r", "s", "t", "u", "v",
      "w", "x", "y", "z", "0", "1", "2", "3", "4", "5", "6", "7", "8", "9", "+", "/">>

Base64Char(sextet) == Base64Alphabet[sextet + 1]

RECURSIVE Base64(_)
\* Buffer.from(password).toString("base64") (217): three bytes give four
\* characters, a shorter last group is padded with "="
Base64(bytes) ==
    IF Len(bytes) = 0 THEN ""
    ELSE IF Len(bytes) = 1
      THEN Base64Char(bytes[1] \div 4) \o Base64Char((bytes[1] % 4) * 16) \o "=="
    ELSE IF Len(bytes) = 2
      THEN Base64Char(bytes[1] \div 4)
             \o Base64Char((bytes[1] % 4) * 16 + bytes[2] \div 16)
             \o Base64Char((bytes[2] % 16) * 4) \o "="
    ELSE Base64Char(bytes[1] \div 4)
           \o Base64Char((bytes[1] % 4) * 16 + bytes[2] \div 16)
           \o Base64Char((bytes[2] % 16) * 4 + bytes[3] \div 64)
           \o Base64Char(bytes[3] % 64)
           \o Base64(SubSeq(bytes, 4, Len(bytes)))

ClientName == "vscode_plugin"
ExtensionVersion == "1.0.0"

\* CORE_ARGS (1005-1011)
CoreArgs == <<"core", "--client-name", ClientName, "--client-version", ExtensionVersion>>

LoginArgs_withPassword(username, password) ==
    <<"login", "--email", username, "--password", Base64(password)>>

\* args: ["login", "--email", username, "--base64"] (215)
LoginArgs(username, password) == <<"login", "--email", username, "--base64">>

\* core ? CORE_ARGS.concat(args) : args (1017)
ExecutableArgs(core, args) == IF core THEN CoreArgs \o args ELSE args

\* stdin && cprocess.stdin.write(stdin + "\n") (1026): the text written to the
\* child's stdin; an empty payload is falsy and writes nothing
StdinWritten(stdin) == IF stdin = "" THEN "" ELSE stdin \o "\n"

NoSpawn == [username |-> "", password |-> << >>, args |-> << >>, written |-> "",
            spawned |-> FALSE]

LoginInit ==
    /\ loginSpawn = NoSpawn
    /\ prevLoginSpawn = NoSpawn

\* authenticate(username, password, isInsider) on the helper-driven path up to
\* the spawn of the login process (209-220, 953, 1017-1026)
AuthenticateSpawns(username, password, forced) ==
    /\ UNCHANGED <<notLogin, insider>>
    /\ ~TokenExists(token)
    /\ UsesLangs(forced, insider)
    /\ loginSpawn' = [username |-> username, password |-> password,
                      args |-> ExecutableArgs(TRUE, LoginArgs(username, password)),
                      written |-> StdinWritten(Base64(password)),
                      spawned |-> TRUE]
    /\ prevLoginSpawn' = loginSpawn

\* the insider flag changes between calls
LoginSetInsider(flag) ==
    /\ UNCHANGED <<notLogin, loginVars>>
    /\ SetInsider(flag)

LoginNext ==
    \/ \E username \in Usernames, password \in Passwords, forced \in BOOLEAN :
          AuthenticateSpawns(username, password, forced)
    \/ \E flag \in BOOLEAN : LoginSetInsider(flag)

(***************************************************************************)
(* Legacy helper bridge (_executeLangsAction, types.ts 1127-1250)          *)
(***************************************************************************)
LegacyActions == {"extract-project", "get-exercise-packaging-configuration"}

\* what reading and checking the JSON file at outputPath gives (1236-1247):
\* a well-typed response, another type, or a throw of readFileSync/JSON.parse
FileOutcomes == {"ok", "badType", "throws"}

LegacyPending == [st |-> "pending", kind |-> "", msg |-> ""]
LegacyOk == [st |-> "ok", kind |-> "", msg |-> ""]
LegacyErr(k, m) == [st |-> "err", kind |-> k, msg |-> m]

\* let error: cp.ExecException | undefined (1160)
NoExecError == [st |-> "none", kind |-> "", msg |-> ""]
\* the ExecException the exec callback got
ExecError == LegacyErr("ExecException", "Command failed")

\* child: "none" before the call, "running", "exited", or "failed" once the
\* child emitted 'error' (it could not be spawned or signalled), after which
\* 'exit' may or may not follow; callbackDone: the exec callback has run;
\* timedOut: the timer fired while processResult was pending; errorAtTimeout:
\* `error` was already set then; killsAtTimeout: kills issued by that firing;
\* thenPending: the exit handler has resolved processResult and the .then
\* callback has not run yet
LegacyIdle ==
    [action |-> "", child |-> "none", active |-> FALSE, error |-> NoExecError,
     interrupted |-> FALSE, callbackDone |-> FALSE, timeout |-> "none",
     processResult |-> LegacyPending, result |-> LegacyPending, kills |-> 0,
     interruptCalls |-> 0, timedOut |-> FALSE, errorAtTimeout |-> FALSE,
     killsAtTimeout |-> 0, thenThrew |-> FALSE, thenPending |-> FALSE]

LegacyInit == legacy = LegacyIdle

ThenResult_timeoutFirst(error, settled, action, file) ==
    IF settled.st = "err" THEN settled
    ELSE IF error # NoExecError THEN error
    ELSE IF action = "extract-project" THEN LegacyOk
    ELSE IF file = "ok" THEN LegacyOk
    ELSE IF file = "badType" THEN LegacyErr("Error", "Unexpected response JSON type")
    ELSE LegacyPending

\* the .then callback of 1218-1246 on the resolved processResult; when
\* readFileSync or JSON.parse throws, resolve is never called
ThenResult(error, settled, action, file) ==
    IF error # NoExecError THEN error
    ELSE IF settled.st = "err" THEN settled
    ELSE IF action = "extract-project" THEN LegacyOk
    ELSE IF file = "ok" THEN LegacyOk
    ELSE IF file = "badType" THEN LegacyErr("Error", "Unexpected response JSON type")
    ELSE LegacyPending

\* the value the exit handler resolves processResult with (1197-1207)
ExitResult(error, isInterrupted, code) ==
    IF error # NoExecError THEN error
    ELSE IF isInterrupted THEN LegacyErr("RuntimeError", "TMC-Langs process was killed.")
    ELSE IF code # -1 /\ code > 0 THEN LegacyErr("Error", "Unknown error")
    ELSE LegacyOk

\* _executeLangsAction is called: cp.exec starts the child, the timer is armed
\* (1127-1193)
LegacyStart(action) ==
    /\ UNCHANGED notLegacy
    /\ legacy.child = "none"
    /\ legacy' = [LegacyIdle EXCEPT !.action = action, !.child = "running",
                                    !.active = TRUE, !.timeout = "armed"]

\* the child emits 'error': the exec callback runs with the error (1164-1172)
\* while no 'exit' has been seen
LegacyExecError ==
    /\ UNCHANGED notLegacy
    /\ legacy.child = "running"
    /\ ~legacy.callbackDone
    /\ legacy' = [legacy EXCEPT !.child = "failed", !.callbackDone = TRUE,
                                !.active = FALSE, !.error = ExecError]

\* cprocess.on("exit") (1195-1213): it resolves processResult if that is pending;
\* the .then callback of 1218 is queued and runs once the handlers of this event
\* have returned
LegacyExit(code) ==
    /\ UNCHANGED notLegacy
    /\ legacy.child \in {"running", "failed"}
    /\ legacy' =
            IF legacy.processResult.st = "pending"
              THEN [legacy EXCEPT !.child = "exited",
                                  !.timeout = ClearTimeout(legacy.timeout),
                                  !.processResult = ExitResult(legacy.error, legacy.interrupted,
                                                               code),
                                  !.thenPending = TRUE]
              ELSE [legacy EXCEPT !.child = "exited",
                                  !.timeout = ClearTimeout(legacy.timeout)]

\* the exec callback (1164-1172) runs when the child has exited and its streams
\* are closed: in the turn of the exit event, ahead of the queued .then
\* callback, when the streams had closed by then, and later otherwise;
\* err: exec reports an error (non-zero code or signal)
LegacyExecCallback(err) ==
    /\ UNCHANGED notLegacy
    /\ legacy.child = "exited"
    /\ ~legacy.callbackDone
    /\ legacy' = [legacy EXCEPT !.callbackDone = TRUE, !.active = FALSE,
                                !.error = IF err THEN ExecError ELSE legacy.error]

\* the .then callback (1218-1246) on the processResult the exit handler resolved
LegacyThen(file) ==
    /\ UNCHANGED notLegacy
    /\ legacy.thenPending
    /\ LET out == ThenResult(legacy.error, legacy.processResult, legacy.action, file)
       IN legacy' = [legacy EXCEPT !.thenPending = FALSE, !.result = out,
                                   !.thenThrew = (out.st = "pending")]

\* interrupt() called by the owner of the action (1174-1180)
LegacyInterrupt ==
    /\ UNCHANGED notLegacy
    /\ legacy.child # "none"
    /\ ~legacy.thenPending
    /\ legacy.interruptCalls < MaxInterrupts
    /\ legacy' = IF legacy.active
                   THEN [legacy EXCEPT !.interruptCalls = @ + 1, !.kills = @ + 1,
                                       !.interrupted = TRUE]
                   ELSE [legacy EXCEPT !.interruptCalls = @ + 1]

\* the setTimeout callback (1183-1193): interrupt(), resolve with TimeoutError,
\* then the .then callback (1218-1246) as the next microtask
LegacyTimeout ==
    /\ UNCHANGED notLegacy
    /\ legacy.timeout = "armed"
    /\ LET res == LegacyErr("TimeoutError", TimeoutMessage)
           out == ThenResult(legacy.error, res, legacy.action, "ok")
           k == IF legacy.active THEN 1 ELSE 0
       IN legacy' =
            IF legacy.processResult.st = "pending"
              THEN [legacy EXCEPT !.timeout = "fired", !.kills = @ + k,
                                  !.interrupted = (@ \/ legacy.active),
                                  !.processResult = res, !.result = out,
                                  !.timedOut = TRUE,
                                  !.errorAtTimeout = (legacy.error # NoExecError),
                                  !.killsAtTimeout = k]
              ELSE [legacy EXCEPT !.timeout = "fired", !.kills = @ + k,
                                  !.interrupted = (@ \/ legacy.active)]

LegacyNext ==
    \/ \E action \in LegacyActions : LegacyStart(action)
    \/ LegacyExecError
    \/ \E code \in ExitCodes : LegacyExit(code)
    \/ \E err \in BOOLEAN : LegacyExecCallback(err)
    \/ \E file \in FileOutcomes : LegacyThen(file)
    \/ LegacyInterrupt
    \/ LegacyTimeout

(***************************************************************************)
(* authenticate, deauthenticate and isAuthenticated running at the same    *)
(* time (types.ts 204-301): each helper command is an external process     *)
(* that acts on the helper's login store while it runs; the call that      *)
(* awaits it continues later, when its result promise has resolved         *)
(***************************************************************************)
OverlapCallers == {1, 2}

\* a store the call has not written
Untouched == "untouched"

\* cmd: the command the call awaits; phase: "run" while the process has not
\* acted yet, "done" once it has and the continuation is due; ok: the command
\* succeeded; seen: the token the logged-in command reported; arg: the token
\* passed to login --set-access-token; wroteHelper: what the call's commands
\* wrote to the helper's store
IdleOp == [op |-> "none", cmd |-> "", phase |-> "", ok |-> FALSE, seen |-> NoToken,
           arg |-> NoToken, wroteHelper |-> Untouched]

NoCompleted == [op |-> "none", res |-> "", wroteLocal |-> Untouched, wroteHelper |-> Untouched]

OverlapInit ==
    /\ ops = [c \in OverlapCallers |-> IdleOp]
    /\ lastCompleted = NoCompleted

\* the call of caller c awaits a helper command (or the OAuth exchange)
Awaits(c, op, cmd, arg) ==
    /\ ops' = [ops EXCEPT ![c] = [ops[c] EXCEPT !.op = op, !.cmd = cmd, !.phase = "run",
                                                !.ok = FALSE, !.seen = NoToken,
                                                !.arg = arg]]
    /\ UNCHANGED lastCompleted

\* the call of caller c returns
Completes(c, op, res, wroteLocal) ==
    /\ ops' = [ops EXCEPT ![c] = IdleOp]
    /\ lastCompleted' = [op |-> op, res |-> res, wroteLocal |-> wroteLocal,
                         wroteHelper |-> ops[c].wroteHelper]

\* authenticate is called by c (204-220, 231-232)
OverlapAuthenticate(c, forced) ==
    /\ UNCHANGED <<notOverlap, insider>>
    /\ ops[c].op = "none"
    /\ UNCHANGED <<token, storedToken, langsToken>>
    /\ IF TokenExists(token) THEN Completes(c, "authenticate", "throw", Untouched)
       ELSE IF UsesLangs(forced, insider) THEN Awaits(c, "authenticate", "login", NoToken)
       ELSE Awaits(c, "authenticate", "oauth", NoToken)

\* deauthenticate is called by c (249-254, 259-261)
OverlapDeauthenticate(c) ==
    /\ UNCHANGED <<notOverlap, insider>>
    /\ ops[c].op = "none"
    /\ UNCHANGED langsToken
    /\ IF insider
         THEN /\ UNCHANGED <<token, storedToken>>
              /\ Awaits(c, "deauthenticate", "logout", NoToken)
         ELSE /\ token' = NoToken
              /\ storedToken' = NoToken
              /\ Completes(c, "deauthenticate", "ok", NoToken)

\* isAuthenticated is called by c (268-273, 300)
OverlapIsAuthenticated(c, forced) ==
    /\ UNCHANGED <<notOverlap, insider>>
    /\ ops[c].op = "none"
    /\ UNCHANGED <<token, storedToken, langsToken>>
    /\ IF UsesLangs(forced, insider) THEN Awaits(c, "isAuthenticated", "loggedIn", NoToken)
       ELSE Completes(c, "isAuthenticated", "ok", Untouched)

\* the helper process of c's command does its work on the helper's store:
\* login stores the token the server gave, logged-in reads the store,
\* login --set-access-token stores its argument, logout clears the store
HelperRuns(c, ok, tok) ==
    LET o == ops[c] IN
    /\ UNCHANGED <<notOverlap, insider>>
    /\ o.phase = "run" /\ o.cmd # "oauth"
    /\ UNCHANGED <<token, storedToken, lastCompleted>>
    /\ LET written == CASE o.cmd = "login" -> tok
                        [] o.cmd = "setToken" -> o.arg
                        [] o.cmd = "logout" -> NoToken
                        [] OTHER -> Untouched
       IN IF ok /\ written # Untouched
            THEN /\ langsToken' = written
                 /\ ops' = [ops EXCEPT ![c] = [o EXCEPT !.phase = "done", !.ok = TRUE,
                                                        !.wroteHelper = written]]
            ELSE /\ UNCHANGED langsToken
                 /\ ops' = [ops EXCEPT ![c] = [o EXCEPT !.phase = "done", !.ok = ok,
                                                        !.seen = IF ok THEN langsToken
                                                                 ELSE NoToken]]

\* the continuation of c's call after its helper command (219-228, 255-261,
\* 274-300)
OverlapContinues(c) ==
    LET o == ops[c] IN
    /\ UNCHANGED <<notOverlap, insider>>
    /\ o.phase = "done"
    /\ UNCHANGED langsToken
    /\ IF ~o.ok
         THEN /\ UNCHANGED <<token, storedToken>>
              /\ Completes(c, o.op, "err", Untouched)
       ELSE IF o.cmd = "login"
         THEN /\ UNCHANGED <<token, storedToken>>
              /\ IF UsesLangs(FALSE, insider) THEN Awaits(c, o.op, "loggedIn", NoToken)
                 ELSE Completes(c, o.op, "ok", Untouched)
       ELSE IF o.cmd = "logout"
         THEN /\ token' = AfterLogout(token, FALSE)
              /\ storedToken' = AfterLogout(storedToken, FALSE)
              /\ Completes(c, o.op, "ok", NoToken)
       ELSE IF o.cmd = "setToken"
         THEN /\ UNCHANGED <<token, storedToken>>
              /\ Completes(c, o.op, "ok", Untouched)
       ELSE IF o.seen = NoToken /\ token = NoToken
         THEN /\ UNCHANGED <<token, storedToken>>
              /\ Completes(c, o.op, "ok", Untouched)
       ELSE IF o.seen = NoToken
         THEN /\ UNCHANGED <<token, storedToken>>
              /\ Awaits(c, o.op, "setToken", token)
       ELSE /\ token' = AfterStatusCheck(token, o.seen)
            /\ storedToken' = AfterStatusCheck(storedToken, o.seen)
            /\ Completes(c, o.op, "ok", o.seen)

\* the OAuth2 password exchange of c's authenticate answered (231-243)
OverlapOauthDone(c, ok, tok) ==
    /\ UNCHANGED <<notOverlap, insider>>
    /\ ops[c].phase = "run" /\ ops[c].cmd = "oauth"
    /\ UNCHANGED langsToken
    /\ IF ok
         THEN /\ token' = tok
              /\ storedToken' = tok
              /\ Completes(c, "authenticate", "ok", tok)
         ELSE /\ UNCHANGED <<token, storedToken>>
              /\ Completes(c, "authenticate", "err", Untouched)

\* the insider flag changes while calls run or between calls
OverlapSetInsider(flag) ==
    /\ UNCHANGED <<notOverlap, token, storedToken, langsToken, overlapVars>>
    /\ SetInsider(flag)

OverlapNext ==
    \/ \E c \in OverlapCallers, forced \in BOOLEAN : OverlapAuthenticate(c, forced)
    \/ \E c \in OverlapCallers : OverlapDeauthenticate(c)
    \/ \E c \in OverlapCallers, forced \in BOOLEAN : OverlapIsAuthenticated(c, forced)
    \/ \E c \in OverlapCallers, ok \in BOOLEAN, tok \in Tokens : HelperRuns(c, ok, tok)
    \/ \E c \in OverlapCallers : OverlapContinues(c)
    \/ \E c \in OverlapCallers, ok \in BOOLEAN, tok \in Tokens : OverlapOauthDone(c, ok, tok)
    \/ \E flag \in BOOLEAN : OverlapSetInsider(flag)

(***************************************************************************)
(* Two invocations of _spawnLangsProcess in flight (types.ts 1003-1117):   *)
(* each call has its own closure (stdout, stderr, active, interrupted,     *)
(* cprocess, timeout, processResult, result).  What a child writes waits   *)
(* in its pipe until the data handler of its invocation is called with it. *)
(* The children start and run; the 'error' event of a child that cannot    *)
(* be started is part of the single-invocation specification.              *)
(***************************************************************************)
RunnerIds == {1, 2}

\* what process p writes: its n-th record and its n-th stderr chunk
PairRecord(p, n) == [by |-> p, n |-> n]
PairChunk(p, n) == [by |-> p, n |-> n]

PairRunnerInit ==
    [active |-> TRUE, interrupted |-> FALSE, stdout |-> << >>, stderr |-> << >>,
     processResult |-> "pending", rejection |-> "", timeout |-> "armed",
     resultPc |-> "await", result |-> RunnerPending,
     issued |-> 0]

\* emittedOut, emittedErr: what the child wrote to its pipes; destroyed:
\* cprocess.stdout.destroyed; kills: kill(pid) calls aimed at this child
PairProcInit ==
    [state |-> "running", emittedOut |-> << >>, emittedErr |-> << >>,
     destroyed |-> FALSE, kills |-> 0]

PairInit ==
    /\ runners = [r \in RunnerIds |-> PairRunnerInit]
    /\ procs = [p \in RunnerIds |-> PairProcInit]

KillTarget_shared(r) == 1

\* kill(cprocess.pid) (1034, 1112): cprocess is the child of the same call
KillTarget(r) == r

\* the callback of invocation r changes r's closure to next and, if it kills,
\* kills the process tree of its child
PairStep(r, next, kill) ==
    /\ runners' = [runners EXCEPT ![r] = [next EXCEPT !.issued = @ + (IF kill THEN 1 ELSE 0)]]
    /\ procs' = IF kill THEN [procs EXCEPT ![KillTarget(r)].kills = @ + 1] ELSE procs

\* setTimeout callback of r (1033-1036)
PairTimeoutExpires(r) ==
    LET s == runners[r] IN
    /\ UNCHANGED notPair
    /\ s.timeout = "armed"
    /\ PairStep(r, [s EXCEPT !.timeout = "fired",
                             !.processResult = Settle(s.processResult, "rejected"),
                             !.rejection = IF s.processResult = "pending"
                                             THEN TimeoutMessage ELSE s.rejection],
                TRUE)

\* child r exits; cprocess.on("exit") of r (1054-1060)
PairProcessExit(r, code) ==
    LET s == runners[r] IN
    /\ UNCHANGED notPair
    /\ procs[r].state = "running"
    /\ runners' = [runners EXCEPT ![r] =
                      [s EXCEPT !.timeout = ClearTimeout(s.timeout),
                                !.processResult = Settle(s.processResult, ExitSettles(code))]]
    /\ procs' = [procs EXCEPT ![r].state = "exited"]

\* child r writes its next record to its stdout pipe, which it has not closed
PairChildWrites(r) ==
    /\ UNCHANGED notPair
    /\ procs[r].state = "running"
    /\ ~procs[r].destroyed
    /\ Len(procs[r].emittedOut) < MaxPairOutput
    /\ procs' = [procs EXCEPT ![r].emittedOut =
                                   Append(@, PairRecord(r, Len(procs[r].emittedOut) + 1))]
    /\ UNCHANGED runners

\* child r writes its next chunk to its stderr pipe
PairChildWritesErr(r) ==
    /\ UNCHANGED notPair
    /\ procs[r].state = "running"
    /\ Len(procs[r].emittedErr) < MaxPairOutput
    /\ procs' = [procs EXCEPT ![r].emittedErr =
                                   Append(@, PairChunk(r, Len(procs[r].emittedErr) + 1))]
    /\ UNCHANGED runners

\* cprocess.stdout.on("data") of r (1061-1080) with the next record waiting in
\* the stdout pipe of child r
PairStdoutData(r) ==
    LET s == runners[r] IN
    /\ UNCHANGED notPair
    /\ Len(s.stdout) < Len(procs[r].emittedOut)
    /\ runners' = [runners EXCEPT ![r] =
                      [s EXCEPT !.stdout = Append(@, procs[r].emittedOut[Len(s.stdout) + 1])]]
    /\ UNCHANGED procs

\* cprocess.stderr.on("data") of r (1042-1046) with the next chunk waiting in the
\* stderr pipe of child r
PairStderrData(r) ==
    LET s == runners[r] IN
    /\ UNCHANGED notPair
    /\ Len(s.stderr) < Len(procs[r].emittedErr)
    /\ runners' = [runners EXCEPT ![r] =
                      [s EXCEPT !.stderr = Append(@, procs[r].emittedErr[Len(s.stderr) + 1])]]
    /\ UNCHANGED procs

\* the stdout stream of child r closes, before or after the 'exit' event: the
\* child has closed its end and the stream has delivered what was in the pipe
PairStdoutClose(r) ==
    /\ UNCHANGED notPair
    /\ ~procs[r].destroyed
    /\ Len(runners[r].stdout) = Len(procs[r].emittedOut)
    /\ procs' = [procs EXCEPT ![r].destroyed = TRUE]
    /\ UNCHANGED runners

\* result of r: `await processResult` continues (1084, 1089-1091)
PairResultAwait(r) ==
    LET s == runners[r] IN
    /\ UNCHANGED notPair
    /\ s.resultPc = "await"
    /\ s.processResult # "pending"
    /\ PairStep(r, IF s.processResult = "rejected"
                     THEN [s EXCEPT !.result = AfterReject(s.rejection, s.stdout, s.stderr),
                                    !.resultPc = "done"]
                     ELSE [s EXCEPT !.resultPc = "drain"],
                FALSE)

\* result of r: the loop of 1085-1088 ends and the function returns (1093-1105)
PairResultDrain(r) ==
    LET s == runners[r] IN
    /\ UNCHANGED notPair
    /\ s.resultPc = "drain"
    /\ procs[r].destroyed
    /\ PairStep(r, [s EXCEPT !.result = AfterDrain(s.interrupted, s.stdout, s.stderr),
                             !.resultPc = "done"],
                FALSE)

\* interrupt() of r (1108-1114) while it still has an effect
PairInterrupt(r) ==
    LET s == runners[r] IN
    /\ UNCHANGED notPair
    /\ s.active
    /\ PairStep(r, [s EXCEPT !.active = ActiveAfterInterrupt, !.interrupted = TRUE], TRUE)

PairNext ==
    \E r \in RunnerIds :
        \/ PairTimeoutExpires(r)
        \/ \E code \in ExitCodes : PairProcessExit(r, code)
        \/ PairChildWrites(r)
        \/ PairChildWritesErr(r)
        \/ PairStdoutData(r)
        \/ PairStderrData(r)
        \/ PairStdoutClose(r)
        \/ PairResultAwait(r)
        \/ PairResultDrain(r)
        \/ PairInterrupt(r)

(***************************************************************************)
(* Line-buffered stdout reader (types.ts 1013-1014, 1061-1080, 1097-1104)  *)
(***************************************************************************)
\* Bytes the child writes.  HEAD, TAIL and OBJ stand for runs of ASCII bytes:
\* HEAD for the text of a response object up to the opening quote of its
\* message string, TAIL for the closing quote and brace, OBJ for the JSON text
\* `{}`.  C3 A4 is the UTF-8 encoding of U+00E4, LF the line feed, SP a space.
\* Decoded text is a sequence of the same names, with U+00E4 and U+FFFD for the
\* characters the bytes C3 and A4 decode to.
Replacement == "U+FFFD"

RECURSIVE Utf8Decode(_)
\* chunk.toString() of a Buffer (1062): each chunk is decoded on its own; a lead
\* byte without its continuation byte and a continuation byte without its lead
\* byte decode to U+FFFD
Utf8Decode(chunk) ==
    IF chunk = << >> THEN << >>
    ELSE IF chunk[1] = "C3"
      THEN IF Len(chunk) >= 2 /\ chunk[2] = "A4"
             THEN <<"U+00E4">> \o Utf8Decode(SubSeq(chunk, 3, Len(chunk)))
             ELSE <<Replacement>> \o Utf8Decode(Tail(chunk))
    ELSE IF chunk[1] = "A4" THEN <<Replacement>> \o Utf8Decode(Tail(chunk))
    ELSE <<chunk[1]>> \o Utf8Decode(Tail(chunk))

RECURSIVE Split(_)
\* text.split("\n"): the parts between line feeds; a text without a line feed
\* is one part
Split(text) ==
    IF \A i \in 1..Len(text) : text[i] # "LF" THEN <<text>>
    ELSE LET i == CHOOSE k \in 1..Len(text) :
                      text[k] = "LF" /\ \A j \in 1..(k - 1) : text[j] # "LF"
         IN <<SubSeq(text, 1, i - 1)>> \o Split(SubSeq(text, i + 1, Len(text)))

RECURSIVE TrimStart(_)
TrimStart(part) ==
    IF part # << >> /\ part[1] = "SP" THEN TrimStart(Tail(part)) ELSE part

RECURSIVE TrimEnd(_)
TrimEnd(part) ==
    IF part # << >> /\ part[Len(part)] = "SP"
      THEN TrimEnd(SubSeq(part, 1, Len(part) - 1)) ELSE part

\* part.trim() (1066)
Trim(part) == TrimEnd(TrimStart(part))

\* what a JSON string may hold among the decoded text of the model: the two
\* characters, the space, and the text `{}`, which has no quote in it
StringChars == {"U+00E4", Replacement, "SP", "OBJ"}

\* JSON.parse(text) (1066), which skips white space around the value: HEAD,
\* string characters, TAIL is a response object with that message; OBJ is an
\* object without the fields of a response; any other text, the empty text
\* included, makes JSON.parse throw
JsonParse(text) ==
    LET value == Trim(text) IN
    IF Len(value) >= 2 /\ value[1] = "HEAD" /\ value[Len(value)] = "TAIL"
         /\ \A i \in 2..(Len(value) - 1) : value[i] \in StringChars
      THEN [thrown |-> FALSE, response |-> TRUE,
            message |-> SubSeq(value, 2, Len(value) - 1)]
    ELSE IF value = <<"OBJ">>
      THEN [thrown |-> FALSE, response |-> FALSE, message |-> << >>]
    ELSE [thrown |-> TRUE, response |-> FALSE, message |-> << >>]

\* is<UncheckedLangsResponse>(json) (1067)
IsResponse(json) == json.response

\* the element stdout.push(json) adds (1068)
ReaderRecord(json) == [message |-> json.message]

RECURSIVE Collect_stopAtBadLine(_)
Collect_stopAtBadLine(parts) ==
    IF parts = << >> THEN << >>
    ELSE LET json == JsonParse(Trim(parts[1])) IN
         IF ~json.thrown /\ IsResponse(json)
           THEN <<ReaderRecord(json)>> \o Collect_stopAtBadLine(Tail(parts))
           ELSE << >>

RECURSIVE Collect(_)
\* for (const part of parts) (1064-1079): a part that parses and has the shape of
\* a response is pushed, any other part is logged and skipped
Collect(parts) ==
    IF parts = << >> THEN << >>
    ELSE LET json == JsonParse(Trim(parts[1])) IN
         IF ~json.thrown /\ IsResponse(json)
           THEN <<ReaderRecord(json)>> \o Collect(Tail(parts))
           ELSE Collect(Tail(parts))

\* the data handler (1061-1080) on one chunk: the new stdoutBuffer and stdout
StdoutHandler(stdoutBuffer, out, chunk) ==
    LET parts == Split(stdoutBuffer \o Utf8Decode(chunk)) IN
    [stdoutBuffer |-> parts[Len(parts)],
     stdout |-> out \o Collect(SubSeq(parts, 1, Len(parts) - 1))]

StdoutAtExit_flushed(stdoutBuffer, out) == out \o Collect(<<stdoutBuffer>>)

\* lines 1097-1104: text left in stdoutBuffer is logged, the stdout array is
\* returned as it is
StdoutAtExit(stdoutBuffer, out) == out

\* lines the child writes: a response, a response with U+00E4 and the text `{}`
\* in its message and spaces around it, JSON of another shape, a cut-off
\* response, an empty line
ReaderLines ==
    { <<"HEAD", "TAIL">>,
      <<"SP", "HEAD", "C3", "A4", "OBJ", "TAIL", "SP">>,
      <<"OBJ">>,
      <<"HEAD">>,
      << >> }

\* what the child writes after its last line feed: nothing, a cut-off response,
\* a whole response, a response cut inside its message
ReaderFragments ==
    { << >>, <<"HEAD">>, <<"HEAD", "TAIL">>, <<"HEAD", "C3", "A4">> }

RECURSIVE JoinLines(_)
JoinLines(lines) ==
    IF lines = << >> THEN << >> ELSE lines[1] \o <<"LF">> \o JoinLines(Tail(lines))

\* every output of at most MaxLines lines and a fragment
ReaderOutputs ==
    { JoinLines(lines) \o fragment :
        lines \in UNION {[1..n -> ReaderLines] : n \in 0..MaxLines},
        fragment \in ReaderFragments }

ReaderInit ==
    reader = [written |-> FALSE, pipe |-> << >>, bytes |-> << >>, text |-> << >>,
              stdoutBuffer |-> << >>, stdout |-> << >>, warned |-> FALSE,
              result |-> RunnerPending]

\* the child writes its output; the operating system hands it on in chunks
ChildWrites(output) ==
    /\ UNCHANGED notReader
    /\ ~reader.written
    /\ reader' = [reader EXCEPT !.written = TRUE, !.pipe = output]

\* cprocess.stdout.on("data") with the first n bytes of the pipe as the chunk
\* (1061-1080); bytes and text record what was delivered and how it decoded
ReaderStdoutData(n) ==
    LET chunk == SubSeq(reader.pipe, 1, n)
        after == StdoutHandler(reader.stdoutBuffer, reader.stdout, chunk)
    IN
    /\ UNCHANGED notReader
    /\ n \in 1..Len(reader.pipe)
    /\ reader' = [reader EXCEPT !.pipe = SubSeq(reader.pipe, n + 1, Len(reader.pipe)),
                                !.bytes = @ \o chunk,
                                !.text = @ \o Utf8Decode(chunk),
                                !.stdoutBuffer = after.stdoutBuffer,
                                !.stdout = after.stdout]

\* the child has exited, its stdout is drained and closed, and the result
\* function returns (1093-1104); no timeout and no interrupt in this part
ReaderClose ==
    /\ UNCHANGED notReader
    /\ reader.written /\ reader.pipe = << >>
    /\ reader.result.st = "pending"
    /\ reader' = [reader EXCEPT
                    !.warned = (reader.stdoutBuffer # << >>),
                    !.result = AfterDrain(FALSE,
                                          StdoutAtExit(reader.stdoutBuffer, reader.stdout),
                                          << >>)]

\* lengths a chunk can have
ChunkSizes == UNION {1..Len(output) : output \in ReaderOutputs}

ReaderNext ==
    \/ \E output \in ReaderOutputs : ChildWrites(output)
    \/ \E n \in ChunkSizes : ReaderStdoutData(n)
    \/ ReaderClose

Init ==
    /\ RunnerInit /\ ValidatorInit /\ LangsInit /\ ConfigInit /\ DownloadInit /\ AuthInit
    /\ ApiInit /\ LoginInit /\ LegacyInit /\ OverlapInit /\ PairInit /\ ReaderInit

SpecRunner == Init /\ [][RunnerNext]_vars

\* the armed timer fires unless it is cleared, the continuations of the async
\* function run once their promise has settled, and the child's stdout stream
\* closes
SpecRunnerFair ==
    /\ SpecRunner
    /\ WF_vars(TimeoutExpires)
    /\ WF_vars(StdoutClose)
    /\ WF_vars(ResultAwait)
    /\ WF_vars(ResultDrain)

SpecRunnerLangs == Init /\ [][RunnerLangsNext]_vars

SpecRunTests == Init /\ [][RunTestsNext]_vars

SpecValidator == Init /\ [][ValidatorNext]_vars

SpecLangs == Init /\ [][LangsNext]_vars

SpecLangsKeys == Init /\ [][LangsKeysNext]_vars

SpecLangsCall == Init /\ [][LangsCallNext]_vars

SpecLangsPair == Init /\ [][LangsPairNext]_vars

SpecApi == Init /\ [][ApiNext]_vars

SpecLogin == Init /\ [][LoginNext]_vars

SpecLegacy == Init /\ [][LegacyNext]_vars

SpecAuthOverlap == Init /\ [][OverlapNext]_vars

SpecRunnerPair == Init /\ [][PairNext]_vars

SpecDownload == Init /\ [][DownloadNext]_vars

SpecAuth == Init /\ [][AuthNext]_vars

SpecReader == Init /\ [][ReaderNext]_vars

(***************************************************************************)
(* Claims about the Process Runner                                         *)
(***************************************************************************)

\* C1 (as stated): once the result has resolved, an interrupt() that was invoked
\* while it was pending makes it the Err "process was killed", whatever else
\* (exit, 'error' event, timeout) happened.
C1_InterruptAlwaysKilled ==
    (result.st # "pending" /\ interruptedBeforeResolved) => result = RunnerErr(KilledMessage)

\* C1 (amended): an interrupt() invoked while the result was pending rules out Ok;
\* the result is the Err "process was killed" whenever processResult was resolved
\* by the exit event, and the Err carrying the rejection value when the 'error'
\* event or the timeout rejected processResult first.
C1_InterruptSupersedesExit ==
    (result.st # "pending" /\ interruptedBeforeResolved) =>
        /\ result.st = "err"
        /\ processResult = "resolved" => result = RunnerErr(KilledMessage)
        /\ processResult = "rejected" => result = RunnerErr(rejection)

\* C1 witness: the process exited by itself, interrupt() came while the runner
\* was still draining stdout, and the result resolved to the kill error.
C1_Witness ==
    /\ result = RunnerErr(KilledMessage)
    /\ interruptedBeforeResolved
    /\ processResult = "resolved"
    /\ Len(stdout) > 0

\* C2 (as stated): for an invocation whose timeout expired, kill was issued
\* exactly once in total, and the error of a timeout differs from the error of
\* a manual interrupt.
C2_TimeoutKillsOnce ==
    /\ timeout = "fired" => kills = 1
    /\ RunnerErr(TimeoutMessage) # RunnerErr(KilledMessage)

(***************************************************************************)
(* Claims about the Response Validator                                     *)
(***************************************************************************)

\* C3: the validator classifies in a fixed order: a crashed status gives the
\* crash error whatever the result tag and the checker say; otherwise an
\* error result gives the logical error whatever the checker says; otherwise
\* a rejected shape gives the unexpected-type error; Ok only when none applies.
C3_ClassificationOrder ==
    checkedInput # NoCheck =>
        LET rec == checkedInput.rec
            crashed == rec.status = "crashed"
            errored == rec.result = "error"
            rejected == ~Accepts(checkedInput.checker, rec.data)
            crashText == CrashPrefix \o MessageOrNull(rec.message)
        IN  /\ crashed => (~checkedOutput.ok /\ checkedOutput.msg = crashText)
            /\ (~crashed /\ errored) =>
                   (~checkedOutput.ok /\ checkedOutput.msg = MessageOrNull(rec.message)
                                      /\ checkedOutput.kind = "Error")
            /\ (~crashed /\ ~errored /\ rejected) =>
                   (~checkedOutput.ok /\ checkedOutput.msg = UnexpectedTypeMessage)
            /\ checkedOutput.ok <=> (~crashed /\ ~errored /\ ~rejected)
            /\ checkedOutput.ok => checkedOutput.val = rec

\* C3 witness: a crashed record that also carries the error result and a data
\* value its checker rejects was classified as a crash.
C3_Witness ==
    /\ checkedInput # NoCheck
    /\ checkedInput.rec.status = "crashed"
    /\ checkedInput.rec.result = "error"
    /\ ~Accepts(checkedInput.checker, checkedInput.rec.data)
    /\ ~checkedOutput.ok
    /\ checkedOutput.msg = CrashPrefix \o "bad course id"

(***************************************************************************)
(* Claims about the helper-driven facade and its cache                     *)
(***************************************************************************)

\* C4: the outcome of a helper-driven call (_executeLangsCommand, runTests) whose
\* process produced records is the outcome the last record alone would give,
\* whatever the earlier records were.
C4_LastRecordDecides ==
    (lastReturn.op # "none" /\ ~lastReturn.hit /\ lastReturn.outcome.st = "ok"
        /\ ~lastReturn.outcome.empty) =>
        LET alone == RunnerOk(<<lastReturn.outcome.last>>, << >>)
        IN  lastReturn.res = IF lastReturn.op = "exec"
                               THEN ExecAfterSpawn(alone, lastReturn.checker)
                               ELSE RunTestsAfterSpawn(alone)

\* C4 witness: a call returned Ok although an earlier record of its stdout was a
\* crash or an error record.
C4_Witness ==
    /\ lastReturn.op = "exec"
    /\ lastReturn.outcome.earlierBad
    /\ lastReturn.res.ok
    /\ lastReturn.res.val = lastReturn.outcome.last

\* C5 (as stated): a cache hit spawns no process and, when no useCache=false call
\* was made for the signature since the original successful call (origData
\* still holds that call's data), returns the data of that original call.
C5_HitReturnsOriginal ==
    lastReturn.hit =>
        /\ lastReturn.spawns = 0
        /\ lastReturn.orig # NoData => lastReturn.res.val.data = lastReturn.orig

\* C5 (amended): a cache hit spawns no process and returns the data of the most
\* recent successful fresh helper invocation for the signature, whether that
\* invocation was made with useCache=false or by a useCache=true call whose
\* checker rejected the entry cached then.
C5_HitReturnsLatestFresh ==
    lastReturn.hit =>
        /\ lastReturn.spawns = 0
        /\ lastReturn.res.ok
        /\ lastReturn.fresh # NoData
        /\ lastReturn.res.val.data = lastReturn.fresh

\* C5 witness: a hit returned the data of the original call, with no
\* useCache=false call in between.
C5_Witness ==
    /\ lastReturn.hit
    /\ lastReturn.res.ok
    /\ lastReturn.res.val.data = DataObjA
    /\ lastReturn.orig = DataObjA

\* C6: a useCache=true call that finds an entry its checker rejects makes exactly
\* one fresh invocation and returns what that invocation gives (Ok with its
\* last record, or Err), never the stale data; no call returns cached data that
\* its checker rejects.
C6_StaleEntryRefetched ==
    /\ (lastReturn.op = "exec" /\ lastReturn.stale) =>
          /\ ~lastReturn.hit
          /\ lastReturn.spawns = 1
          /\ lastReturn.outcome.st # "none"
          /\ lastReturn.res.ok =>
                /\ lastReturn.outcome.st = "ok"
                /\ lastReturn.res.val = lastReturn.outcome.last
                /\ lastReturn.res.val.data # lastReturn.staleData
    /\ (lastReturn.op = "exec" /\ lastReturn.res.ok) =>
          Accepts(lastReturn.checker, lastReturn.res.val.data)

\* C6 witness: the cached data was rejected, the helper ran again and the call
\* returned the fresh data.
C6_Witness ==
    /\ lastReturn.op = "exec"
    /\ lastReturn.stale
    /\ lastReturn.staleData = DataObjB
    /\ lastReturn.spawns = 1
    /\ lastReturn.res.ok
    /\ lastReturn.res.val.data = DataObjA

(***************************************************************************)
(* Claims about downloadExercise                                           *)
(***************************************************************************)

\* C7: when downloadExercise has returned and its download step (helper path) or
\* extract step (legacy path) had failed, the workspace manager holds no entry
\* for that exercise id.
C7_FailedDownloadLeavesNoEntry ==
    (downloadPc = "idle" /\ downloadReturn.failed \in {"download", "extract"}) =>
        downloadReturn.id \notin exercises

\* C7 witness: the path was created, the helper download failed, the call
\* returned and the entry is gone.
C7_Witness ==
    /\ downloadPc = "idle"
    /\ downloadReturn.failed = "download"
    /\ downloadReturn.pathCreated
    /\ downloadReturn.id = 1
    /\ 1 \notin exercises
    /\ 2 \in exercises

\* C8: a failed download or extract step makes downloadExercise return Err, and
\* it returns Ok only with the exercise downloaded and extracted (its entry in
\* place).
C8_FailedDownloadReturnsErr ==
    downloadPc = "idle" =>
        /\ downloadReturn.failed \in {"download", "extract"} => downloadReturn.res = "err"
        /\ downloadReturn.res = "ok" => downloadReturn.id \in exercises

(***************************************************************************)
(* Claims about authentication                                             *)
(***************************************************************************)

\* C9 (as stated): after any completed authenticate, deauthenticate or
\* isAuthenticated call the helper's login store and the extension's token hold
\* the same value, and it is the value written last to either of them.
C9_StoresAlwaysConsistent ==
    (authPc = "idle" /\ authReturn.res \in {"ok", "err"}) =>
        /\ token = langsToken
        /\ token = lastWritten

\* C9 (amended): after a helper-driven isAuthenticated that saw the helper's login
\* state and returned Ok (alone or as the last step of authenticate), and after
\* a helper-driven deauthenticate that returned Ok, the helper's store, the
\* in-memory token and the persisted token agree; the value is the helper's
\* token when the helper held one, and the local token otherwise.
C9_StoresConsistentAfterSync ==
    (authPc = "idle" /\ authReturn.synced) =>
        /\ authReturn.res = "ok"
        /\ token = langsToken
        /\ storedToken = token
        /\ authReturn.op = "deauthenticate" => token = NoToken
        /\ authReturn.op # "deauthenticate" =>
              token = IF authReturn.helperAtCheck # NoToken
                        THEN authReturn.helperAtCheck ELSE authReturn.tokenAtCheck

\* C9 witness: the local token was t2, the helper held t1, and a status check
\* replaced the local token by the helper's.
C9_Witness ==
    /\ authPc = "idle"
    /\ authReturn.synced
    /\ authReturn.op = "isAuthenticated"
    /\ authReturn.tokenAtCheck = "t2"
    /\ authReturn.helperAtCheck = "t1"
    /\ token = "t1"
    /\ langsToken = "t1"

\* C10: when authenticate or deauthenticate has returned Err, the in-memory token
\* and the persisted token are what they were when the call was made.
C10_FailedCallKeepsToken ==
    (authPc = "idle" /\ authReturn.op \in {"authenticate", "deauthenticate"}
        /\ authReturn.res = "err") =>
        /\ token = authReturn.tokenBefore
        /\ storedToken = authReturn.storedBefore

\* C10 witness: a helper-driven deauthenticate failed and the token is still there.
C10_Witness ==
    /\ authPc = "idle"
    /\ authReturn.op = "deauthenticate"
    /\ authReturn.res = "err"
    /\ token = "t1"
    /\ storedToken = "t1"

\* C11: an authenticate call made while a token was present fails (it raises)
\* without starting a helper command or an OAuth exchange, and the in-memory and
\* the persisted token are what they were when it was called.
C11_AuthenticateWithTokenFails ==
    (authPc = "idle" /\ authReturn.op = "authenticate"
        /\ authReturn.tokenBefore # NoToken) =>
        /\ authReturn.res \notin {"ok", "none"}
        /\ authReturn.commands = 0
        /\ token = authReturn.tokenBefore
        /\ storedToken = authReturn.storedBefore

\* C11 witness: authenticate was called with the token t1 in place and failed.
C11_Witness ==
    /\ authPc = "idle"
    /\ authReturn.op = "authenticate"
    /\ authReturn.tokenBefore = "t1"
    /\ authReturn.res = "throw"
    /\ token = "t1"
    /\ storedToken = "t1"

\* C12: once the workspace manager is attached, no call of downloadExercise or
\* downloadOldExercise ends by raising an exception: every failure of theirs is
\* returned as an Err.
C12_NeverRaises ==
    [][workspaceManager =>
          /\ oldCall' # oldCall => oldCall'.res # "throw"
          /\ downloadReturn' # downloadReturn => downloadReturn'.res # "throw"]_vars

(***************************************************************************)
(* Further claims about the Process Runner                                 *)
(***************************************************************************)

\* C13: interrupt() is idempotent: a second or later call issues no kill and
\* changes nothing of the invocation (flags, promise, collected output, result),
\* so the result stays as the first call left it to be determined.
C13_InterruptIdempotent ==
    [][(interruptCalls >= 1 /\ interruptCalls' = interruptCalls + 1) =>
          /\ kills' = kills
          /\ UNCHANGED <<active, interrupted, stdout, stderr, processResult, rejection,
                         timeout, cprocess, exitCode, errorEmitted, stdoutDestroyed,
                         resultPc, result, interruptedBeforeResolved>>]_vars

\* C13 witness: interrupt() was called twice before the result resolved, one kill
\* was issued and the result is the kill error.
C13_Witness ==
    /\ interruptCalls = 2
    /\ interruptedBeforeResolved
    /\ kills = 1
    /\ result = RunnerErr(KilledMessage)

\* C14: under fairness of the timer, of the stream events and of the promise
\* continuations every invocation resolves its result, to Ok or to an Err
\* carrying a RuntimeError, and it stays resolved; an invocation whose process
\* has exited resolves too.
C14_EventuallyResolves ==
    /\ <>[](/\ result.st \in {"ok", "err"}
            /\ result.st = "err" => result.kind = "RuntimeError")
    /\ (cprocess = "exited") ~> (result.st # "pending")

\* C14 witness: the process emitted two records and exited, its stdout closed and
\* the result resolved to Ok with both records.
C14_Witness ==
    /\ cprocess = "exited"
    /\ stdoutDestroyed
    /\ result.st = "ok"
    /\ Len(result.out) = 2
    /\ ~interrupted

\* C15: when the timeout of an invocation has expired, its result, once resolved,
\* is the Err RuntimeError with the timeout message whatever records were
\* collected, and the _executeLangsCommand call that awaited it returns that
\* Err and leaves the cache without any entry.
C15_TimeoutFailsDespiteOutput ==
    timeout = "fired" =>
        /\ result.st # "pending" => result = RunnerErr(TimeoutMessage)
        /\ lastReturn.op # "none" =>
              /\ ~lastReturn.res.ok
              /\ lastReturn.res.kind = "RuntimeError"
              /\ lastReturn.res.msg = TimeoutMessage
              /\ \A k \in CacheKeys : rustCache[k] = NoEntry

\* C15 witness: the process had emitted a progress record and a final
\* 'finished' record when the timeout expired; the call returned the timeout
\* error and the cache is empty.
C15_Witness ==
    /\ timeout = "fired"
    /\ cprocess = "running"
    /\ stdout = <<RecProgress, RecFinished>>
    /\ lastReturn.op = "exec"
    /\ lastReturn.res = LangsErr("RuntimeError", TimeoutMessage, "")
    /\ \A k \in CacheKeys : rustCache[k] = NoEntry

(***************************************************************************)
(* Further claims about the helper-driven facade                           *)
(***************************************************************************)

\* C16: a helper-driven call (_executeLangsCommand with any checker, runTests)
\* whose final record has status 'crashed' returns Err; when the record's data
\* is a sequence of strings the error is a RuntimeError whose detail is those
\* strings joined by newlines, otherwise its detail is empty and its message is
\* the crash text followed by the record's message.
C16_CrashedAlwaysErr ==
    (lastReturn.op # "none" /\ lastReturn.outcome.st = "ok" /\ ~lastReturn.outcome.empty
        /\ lastReturn.outcome.last.status = "crashed") =>
        LET rec == lastReturn.outcome.last
            text == IF rec.message \in {NullMsg, ""} THEN "null" ELSE rec.message
        IN  /\ ~lastReturn.res.ok
            /\ lastReturn.res.msg = "Langs process crashed: " \o text
            /\ rec.data.tag = "strs" =>
                  /\ lastReturn.res.kind = "RuntimeError"
                  /\ lastReturn.res.detail = JoinWith(rec.data.items, "\n")
            /\ rec.data.tag # "strs" =>
                  /\ lastReturn.res.kind = "Error"
                  /\ lastReturn.res.detail = ""

\* C16 witness: the checker that accepts every value was used, the final record
\* was a crash with two strings as data, and the Err carries them joined.
C16_Witness ==
    /\ lastReturn.op = "exec"
    /\ lastReturn.checker = "unknown"
    /\ lastReturn.outcome.last.status = "crashed"
    /\ lastReturn.outcome.last.result = "retrieved-data"
    /\ lastReturn.outcome.last.data = DataStrs
    /\ ~lastReturn.res.ok
    /\ lastReturn.res.detail = "e1\ne2"

\* C17: a helper-driven call whose final record is not crashed and has the result
\* 'error' returns an Err whose message is the record's message, or the text
\* "null" when the record has none (null or empty), and no cache entry is
\* written.
C17_ErrorResultGivesMessage ==
    (lastReturn.op # "none" /\ lastReturn.outcome.st = "ok" /\ ~lastReturn.outcome.empty
        /\ lastReturn.outcome.last.status # "crashed"
        /\ lastReturn.outcome.last.result = "error") =>
        LET rec == lastReturn.outcome.last IN
        /\ ~lastReturn.res.ok
        /\ lastReturn.res.kind = "Error"
        /\ lastReturn.res.msg = IF rec.message \in {NullMsg, ""} THEN "null" ELSE rec.message
        /\ \A k \in CacheKeys : rustCache[k] = NoEntry

\* C17 witness: the final record was finished/error with the message
\* "bad course id" and no data; the call returned Err("bad course id").
C17_Witness ==
    /\ lastReturn.op = "exec"
    /\ lastReturn.outcome.last =
           [status |-> "finished", result |-> "error", data |-> DataNull,
            message |-> "bad course id"]
    /\ ~lastReturn.outcome.earlierBad
    /\ lastReturn.res = LangsErr("Error", "bad course id", "")
    /\ \A k \in CacheKeys : rustCache[k] = NoEntry

\* C18: every cache entry is a record that is neither crashed nor an error
\* record, and an entry changes only when an _executeLangsCommand call returns
\* Ok with that record after its own checker accepted the record's data; every
\* Ok returned by _executeLangsCommand is such a record, accepted by the
\* checker of the returning call (a cache hit included), and every Ok returned
\* by runTests is the data of such a record, accepted by the test-results
\* checker.
C18_OnlyValidatedResponses ==
    /\ [](/\ \A k \in CacheKeys :
                rustCache[k].present =>
                    /\ rustCache[k].rec.status \in {"finished", "in-progress"}
                    /\ rustCache[k].rec.result \in Results \ {"error"}
          /\ (lastReturn.op = "exec" /\ lastReturn.res.ok) =>
                /\ lastReturn.res.val.status \in {"finished", "in-progress"}
                /\ lastReturn.res.val.result \in Results \ {"error"}
                /\ Accepts(lastReturn.checker, lastReturn.res.val.data)
          /\ (lastReturn.op = "runTests" /\ lastReturn.res.ok) =>
                /\ lastReturn.outcome.last.status \in {"finished", "in-progress"}
                /\ lastReturn.outcome.last.result \in Results \ {"error"}
                /\ lastReturn.res.val = lastReturn.outcome.last.data
                /\ Accepts("testResults", lastReturn.res.val))
    /\ [][\A k \in CacheKeys :
              rustCache'[k] # rustCache[k] =>
                  \E c \in Callers :
                      /\ calls[c].pc = "spawned"
                      /\ calls'[c].pc = "idle"
                      /\ CacheKey(calls[c].args) = k
                      /\ lastReturn'.res.ok
                      /\ rustCache'[k] = Entry(lastReturn'.res.val)
                      /\ Accepts(calls[c].checker, rustCache'[k].rec.data)]_vars

\* C18 witness: one of two overlapping calls has stored a validated record, the
\* other is still waiting for its process, and runTests returned Ok with
\* test-results data.
C18_Witness ==
    /\ rustCache["get-organizations"] =
           Entry([status |-> "finished", result |-> "retrieved-data", data |-> DataObjB,
                  message |-> NullMsg])
    /\ calls["a"].pc = "idle" /\ calls["b"].pc = "spawned"
    /\ lastReturn.op = "runTests"
    /\ lastReturn.res.ok
    /\ lastReturn.res.val = DataObjB

(***************************************************************************)
(* Further claims about authentication                                     *)
(***************************************************************************)

\* C19: a helper-driven isAuthenticated that returned Ok after the helper gave
\* its login state: with the helper logged out and a local token, the local
\* token was pushed into the helper by a second command and is kept; with the
\* helper logged in, its token replaced the in-memory and the persisted token;
\* and the value returned is true exactly when the helper or the local store
\* held a token.  When the helper answered with another record the local store
\* alone decides.
C19_StatusCheckMigratesToken ==
    (authPc = "idle" /\ authReturn.op = "isAuthenticated" /\ authReturn.res = "ok"
        /\ authReturn.commands >= 1) =>
        LET helper == authReturn.helperAtCheck
            local == authReturn.tokenAtCheck
        IN  /\ authReturn.synced =>
                /\ (helper = NoToken /\ local # NoToken) =>
                       /\ authReturn.commands = 2
                       /\ langsToken = local
                       /\ token = local
                       /\ storedToken = authReturn.storedBefore
                /\ helper # NoToken =>
                       /\ authReturn.commands = 1
                       /\ token = helper
                       /\ storedToken = helper
                       /\ langsToken = helper
                /\ (helper = NoToken /\ local = NoToken) =>
                       /\ authReturn.commands = 1
                       /\ token = NoToken
                       /\ langsToken = NoToken
                /\ authReturn.val <=> (helper # NoToken \/ local # NoToken)
            /\ ~authReturn.synced =>
                /\ authReturn.commands = 1
                /\ token = local
                /\ authReturn.val <=> (local # NoToken)

\* C19 witness: the helper was logged out, the local token was t1, the status
\* check pushed t1 into the helper and returned true.
C19_Witness ==
    /\ authPc = "idle"
    /\ authReturn.op = "isAuthenticated"
    /\ authReturn.res = "ok"
    /\ authReturn.synced
    /\ authReturn.commands = 2
    /\ authReturn.helperAtCheck = NoToken
    /\ authReturn.tokenAtCheck = "t1"
    /\ langsToken = "t1"
    /\ authReturn.val

(***************************************************************************)
(* Claims about runTests                                                   *)
(***************************************************************************)

\* C20 (as stated): the result of runTests is Ok only when the last record
\* passes classification and its data has the test-results shape; it is Err when
\* the process ended by itself and no record was collected or the last record's
\* data has another shape; and it is the Err reporting the kill whenever the
\* interrupt handle was invoked before the runner's result resolved.
C20_InterruptReportsKill ==
    lastReturn.op = "runTests" =>
        /\ lastReturn.res.ok =>
              /\ lastReturn.outcome.last.status # "crashed"
              /\ lastReturn.outcome.last.result # "error"
              /\ lastReturn.outcome.last.data = DataObjB
              /\ lastReturn.res.val = DataObjB
        /\ (lastReturn.outcome.st = "ok"
                /\ (lastReturn.outcome.empty \/ lastReturn.outcome.last.data # DataObjB)) =>
              ~lastReturn.res.ok
        /\ interruptedBeforeResolved =>
              lastReturn.res = LangsErr("RuntimeError", KilledMessage, "")

\* C20 (amended): as above, except that an interrupt invoked before the runner's
\* result resolved makes the result an Err, never Ok: the Err reporting the kill
\* when the process result was settled by the exit event, and the Err carrying
\* the timeout text or the 'error' event's error when one of those had rejected
\* the process result.
C20_InterruptNeverOk ==
    lastReturn.op = "runTests" =>
        /\ lastReturn.res.ok =>
              /\ lastReturn.outcome.last.status # "crashed"
              /\ lastReturn.outcome.last.result # "error"
              /\ lastReturn.outcome.last.data = DataObjB
              /\ lastReturn.res.val = DataObjB
        /\ (lastReturn.outcome.st = "ok"
                /\ (lastReturn.outcome.empty \/ lastReturn.outcome.last.data # DataObjB)) =>
              ~lastReturn.res.ok
        /\ interruptedBeforeResolved =>
              /\ ~lastReturn.res.ok
              /\ processResult = "resolved" =>
                    lastReturn.res = LangsErr("RuntimeError", KilledMessage, "")
              /\ processResult = "rejected" =>
                    /\ rejection \in {TimeoutMessage, ProcessErrorValue}
                    /\ lastReturn.res = LangsErr("RuntimeError", rejection, "")

\* C20 witness: the process had emitted a record with test-results data and
\* exited with code 0, the handle was invoked before the result resolved, and
\* runTests returned the kill error.
C20_Witness ==
    /\ lastReturn.op = "runTests"
    /\ interruptedBeforeResolved
    /\ cprocess = "exited"
    /\ exitCode = 0
    /\ stdout = <<RecTestResults>>
    /\ kills = 1
    /\ lastReturn.res = LangsErr("RuntimeError", KilledMessage, "")

(***************************************************************************)
(* Claims about the lifetime and the keys of the helper cache              *)
(***************************************************************************)

\* C21 (as stated): an entry, once stored, is never removed, and it is replaced
\* only when a call for its signature made with useCache=false returns Ok.
C21_ReplacedOnlyByUncachedCall ==
    [][\A k \in CacheKeys :
          rustCache[k].present =>
              /\ rustCache'[k].present
              /\ rustCache'[k] # rustCache[k] =>
                    \E c \in Callers :
                        /\ calls[c].pc = "spawned"
                        /\ calls'[c].pc = "idle"
                        /\ CacheKey(calls[c].args) = k
                        /\ lastReturn'.res.ok
                        /\ ~calls[c].useCache]_vars

\* C21 (amended): an entry, once stored, is never removed, and it is replaced
\* only when a call for its signature that ran the helper returns Ok: a call
\* made with useCache=false, or a call made with useCache=true that was not
\* answered from the cache: its checker rejected the data of the entry it
\* found, or there was no entry yet when it looked (another call stored one
\* while this call's helper ran).
C21_ReplacedOnlyByFreshCall ==
    [][\A k \in CacheKeys :
          rustCache[k].present =>
              /\ rustCache'[k].present
              /\ rustCache'[k] # rustCache[k] =>
                    \E c \in Callers :
                        /\ calls[c].pc = "spawned"
                        /\ calls'[c].pc = "idle"
                        /\ CacheKey(calls[c].args) = k
                        /\ lastReturn'.res.ok
                        /\ rustCache'[k] = Entry(lastReturn'.res.val)
                        /\ (calls[c].useCache /\ calls[c].stale) =>
                              ~Accepts(calls[c].checker, calls[c].staleData)]_vars

\* C21 witness: a useCache=true call found an entry with data its checker
\* rejected, ran the helper, and the entry now holds the in-progress record
\* that run ended with; another call is waiting for its helper.
C21_Witness ==
    /\ \E c \in Callers : calls[c].pc = "spawned"
    /\ lastReturn.op = "exec"
    /\ lastReturn.stale
    /\ lastReturn.staleData = DataObjB
    /\ lastReturn.res.ok
    /\ lastReturn.res.val.data = DataNull
    /\ rustCache["get-organizations"] = Entry(lastReturn.res.val)

\* C22 (as stated): a call answered from the cache gets the entry that a call
\* with the same argument list stored, and an entry is replaced only by a call
\* with the argument list of the call that stored it.
C22_KeyedBySignature ==
    /\ [](lastReturn.hit => entryArgs[lastReturn.key] = lastReturn.args)
    /\ [][\A k \in CacheKeys :
              (rustCache[k].present /\ rustCache'[k] # rustCache[k]) =>
                  entryArgs'[k] = entryArgs[k]]_vars


\* C23: a _tmcApiRequest call with cache=true made when a response is stored
\* for its method and endpoint returns that stored response without a network
\* request; a call with cache=false always makes one network request; and the
\* stored response for a method and endpoint is exactly the one of the last
\* successful fetched cache=true request for them: it is never removed, and
\* nothing else writes it.
C23_CachedRequestSkipsNetwork ==
    /\ [](apiReturn.op = "request" =>
            /\ (apiReturn.cache /\ apiReturn.stored # NoApiEntry) =>
                   (apiReturn.fetches = 0 /\ apiReturn.res = ApiOk(apiReturn.stored))
            /\ ~apiReturn.cache => apiReturn.fetches = 1
            /\ (apiReturn.cache /\ apiReturn.res.ok) =>
                   apiCache[apiReturn.key] = apiReturn.res.val)
    /\ [][\A k \in ApiKeys :
            apiCache'[k] # apiCache[k] =>
                /\ apiReturn'.key = k /\ apiReturn'.cache /\ apiReturn'.fetches = 1
                /\ apiReturn'.res.ok /\ apiCache'[k] = apiReturn'.res.val]_vars

\* a cache=true request was answered from the store with obj1 and without a
\* network request, and a cache=false request for the same method and endpoint
\* is now awaiting its fetch
C23_Witness ==
    /\ apiReturn.op = "request" /\ apiReturn.cache /\ apiReturn.fetches = 0
    /\ apiReturn.res = ApiOk("obj1")
    /\ apiCall = [pc |-> "fetch", key |-> apiReturn.key, cache |-> FALSE]

\* C24: a non-2xx response gives AuthorizationError when the status is 403 and
\* otherwise ApiError with "<status> - <status text> - <error field of the JSON
\* body, or the raw body text>", whatever the body contains.
C24_NonOkGivesTypedError ==
    (apiReturn.op = "request" /\ apiReturn.fetches = 1
        /\ apiReturn.status \in {"403", "404", "500"}) =>
        IF apiReturn.status = "403"
          THEN apiReturn.res.ok = FALSE /\ apiReturn.res.kind = "AuthorizationError"
          ELSE \E l \in StatusLines :
                 /\ l.status = apiReturn.status
                 /\ apiReturn.res = ApiErr("ApiError",
                        l.status \o " - " \o l.text \o " - "
                            \o apiReturn.body.content)


\* C25: the result of a helper invocation that was neither timed out nor
\* interrupted is determined without the exit code. Once the process has
\* exited, with code 0, a non-zero code or null, the runner resolves to Ok with
\* the records collected and the stderr text collected until then, and the
\* _executeLangsCommand call returns what the last stdout record gives; if the
\* child's error event came before the exit, both are the Err of that error.
C25_ExitCodeNotAuthoritative ==
    (resultPc = "done" /\ ~interrupted /\ timeout # "fired" /\ cprocess = "exited") =>
        /\ processResult = "resolved" =>
              /\ result.st = "ok" /\ result.out = stdout
              /\ result.errs = SubSeq(stderr, 1, Len(result.errs))
        /\ processResult # "resolved" => result = RunnerErr(ProcessErrorValue)
        /\ lastReturn.op = "exec" =>
              lastReturn.res =
                  ExecAfterSpawn(IF processResult = "resolved" THEN RunnerOk(stdout, << >>)
                                 ELSE RunnerErr(ProcessErrorValue),
                                 lastReturn.checker)

\* C25 witness: the process exited with code 1 after a final 'finished' record,
\* without timeout, interrupt or error event, and the call returned Ok.
C25_Witness ==
    /\ cprocess = "exited" /\ exitCode = 1
    /\ ~interrupted /\ timeout = "cleared" /\ ~errorEmitted
    /\ stdout = <<RecProgress, RecFinished>>
    /\ lastReturn.op = "exec" /\ lastReturn.res = LangsOk(RecFinished)


\* C27: the argument list of the login process authenticate spawns holds no
\* part that is the password or its base64 text, and two calls with the same
\* username spawn processes with identical argument lists whatever their
\* passwords; whatever is written to the child's stdin is the base64 text of
\* the password followed by a newline (a password whose base64 text is empty
\* writes nothing).
C27_PasswordOnlyOnStdin ==
    /\ loginSpawn.spawned =>
          /\ loginSpawn.args = CoreArgs \o <<"login", "--email", loginSpawn.username, "--base64">>
          /\ \A i \in 1..Len(loginSpawn.args) :
                loginSpawn.args[i] = Base64(loginSpawn.password) =>
                    loginSpawn.username = Base64(loginSpawn.password)
          /\ loginSpawn.written # "" =>
                loginSpawn.written = Base64(loginSpawn.password) \o "\n"
          /\ loginSpawn.written = "" <=> Len(loginSpawn.password) = 0
    /\ (prevLoginSpawn.spawned /\ prevLoginSpawn.username = loginSpawn.username) =>
          prevLoginSpawn.args = loginSpawn.args

\* C27 witness: two login processes spawned for the same user with the passwords
\* "pw" and "abc": same argument list, stdin "cHc=\n" and "YWJj\n".
C27_Witness ==
    /\ prevLoginSpawn.spawned /\ loginSpawn.spawned
    /\ prevLoginSpawn.username = "student" /\ loginSpawn.username = "student"
    /\ prevLoginSpawn.password = <<112, 119>> /\ loginSpawn.password = <<97, 98, 99>>
    /\ prevLoginSpawn.written = "cHc=\n" /\ loginSpawn.written = "YWJj\n"
    /\ prevLoginSpawn.args = loginSpawn.args


\* a step of the downloadExercise call that has not finished its lookups
LookupStep ==
    /\ downloadPc \in {"idle", "details", "course"}
    /\ <<downloadPc, downloadReturn, downloadCall>>' # <<downloadPc, downloadReturn, downloadCall>>

\* C28: while downloadExercise is creating the destination path, downloading
\* (helper download or HTTP archive download) or extracting, its exercise-details
\* lookup and its course-details lookup have succeeded and the course lists the
\* exercise; until then no step of the call creates or removes an entry or an
\* archive; and a call that ended because one of the three failed returned Err
\* and left the exercise entries as they were when it began.
C28_NoDownloadBeforeLookups ==
    /\ [](/\ downloadPc \in {"createPath", "download", "httpDownload", "createPathLegacy",
                              "extract", "deleteDownload", "deleteExtract"} =>
                (downloadCall.details = "ok" /\ downloadCall.course = "ok" /\ downloadCall.found)
          /\ downloadPc \in {"details", "course"} => exercises = downloadCall.exercisesBefore
          /\ (downloadPc = "idle" /\ downloadCall.details # "none"
                /\ ~(downloadCall.details = "ok" /\ downloadCall.course = "ok"
                     /\ downloadCall.found)) =>
                /\ downloadReturn.res = "err"
                /\ downloadReturn.failed \in {"details", "course", "find"}
                /\ ~downloadReturn.pathCreated
                /\ exercises = downloadCall.exercisesBefore)
    /\ [][LookupStep => (exercises' = exercises /\ archives' = archives)]_vars

\* C28 witness: both lookups succeeded but the course does not list the
\* exercise; the call returned Err and no entry for the exercise exists.
C28_Witness ==
    /\ downloadPc = "idle"
    /\ downloadCall.details = "ok" /\ downloadCall.course = "ok" /\ ~downloadCall.found
    /\ downloadReturn.res = "err" /\ downloadReturn.failed = "find"
    /\ downloadReturn.id \notin exercises


\* C29 as stated: whenever the timeout of a legacy action expired before an
\* exit resolved it, that firing killed the process tree and the action's
\* result is the Err with the TimeoutError.
C29_TimeoutGivesTimeoutError ==
    legacy.timedOut =>
        /\ legacy.killsAtTimeout = 1
        /\ legacy.result = LegacyErr("TimeoutError", TimeoutMessage)

\* C29: when the timeout of a legacy action expires before an exit resolved it
\* and the exec callback has not reported an error by then, the firing kills the
\* process tree and the result is the Err with the TimeoutError; when the exec
\* callback had reported an error, nothing is killed and the result is the Err
\* with that error; in both cases no later exit, exec callback or interrupt
\* changes the result.
C29_TimeoutErrorUnlessExecError ==
    /\ [](legacy.timedOut =>
            IF legacy.errorAtTimeout
              THEN legacy.killsAtTimeout = 0 /\ legacy.result = ExecError
              ELSE /\ legacy.killsAtTimeout = 1
                   /\ legacy.result = LegacyErr("TimeoutError", TimeoutMessage))
    /\ [][legacy.timedOut => legacy'.result = legacy.result]_vars

\* C29 witness: the timeout expired while the child ran, and the child then
\* exited and the exec callback reported its error; the result is still the
\* TimeoutError.
C29_Witness ==
    /\ legacy.timedOut /\ ~legacy.errorAtTimeout
    /\ legacy.child = "exited" /\ legacy.callbackDone /\ legacy.error = ExecError
    /\ legacy.result = LegacyErr("TimeoutError", TimeoutMessage)
    /\ legacy.killsAtTimeout = 1


\* C30: once no authentication call is in flight, each token store the call
\* that completed last has written (the in-memory and persisted token, the
\* helper's login store) holds the value that call wrote to it.
C30_LastCompletedWins ==
    ((\A c \in OverlapCallers : ops[c].op = "none") /\ lastCompleted.op # "none") =>
        /\ lastCompleted.wroteLocal # Untouched =>
              (token = lastCompleted.wroteLocal /\ storedToken = lastCompleted.wroteLocal)
        /\ lastCompleted.wroteHelper # Untouched =>
              langsToken = lastCompleted.wroteHelper


\* C26: with two invocations in flight, an invocation that has resolved Ok
\* holds exactly the records and all the stderr chunks its own child wrote.
C26_OutcomeHoldsAllOutput ==
    \A r \in RunnerIds :
        runners[r].result.st = "ok" =>
            /\ runners[r].result.out = procs[r].emittedOut
            /\ runners[r].result.errs = procs[r].emittedErr

\* C26 (amended): with two invocations in flight, an invocation that resolved
\* Ok returns exactly the records its own child wrote, in the order written,
\* and exactly the stderr chunks of its own child that its handler had been
\* given when it resolved, in the order written; a resolved result never
\* changes; the kills aimed at a child are exactly those its own invocation
\* issued (by its timeout or its interrupt); and a callback of one invocation
\* leaves the closure, the result and the child of the other untouched.
C26_InvocationsIndependent ==
    /\ [](\A r \in RunnerIds :
            /\ runners[r].result.st = "ok" => runners[r].result.out = procs[r].emittedOut
            /\ runners[r].stdout = SubSeq(procs[r].emittedOut, 1, Len(runners[r].stdout))
            /\ runners[r].stderr = SubSeq(procs[r].emittedErr, 1, Len(runners[r].stderr))
            /\ procs[r].kills = runners[r].issued)
    /\ [][\A r \in RunnerIds :
            /\ (runners[r].result.st = "pending" /\ runners'[r].result.st = "ok") =>
                  runners'[r].result.errs = runners[r].stderr
            /\ runners[r].result.st # "pending" => runners'[r].result = runners[r].result]_vars
    /\ [][\A r \in RunnerIds : \A q \in RunnerIds \ {r} :
            (runners'[r] # runners[r] \/ procs'[r] # procs[r]) =>
                (runners'[q] = runners[q] /\ procs'[q] = procs[q])]_vars

\* C26 witness: invocation 1 timed out and was interrupted (two kills of child
\* 1) and resolved Err after its child had written two records; invocation 2
\* resolved Ok with the two records of child 2 in order and the first of its
\* two stderr chunks, the second having been delivered later; child 2 was
\* never killed.
C26_Witness ==
    /\ runners[1].timeout = "fired" /\ runners[1].interrupted /\ procs[1].kills = 2
    /\ runners[1].result = RunnerErr(TimeoutMessage)
    /\ Len(procs[1].emittedOut) = 2
    /\ procs[2].kills = 0 /\ procs[2].state = "exited"
    /\ runners[2].result = RunnerOk(<<PairRecord(2, 1), PairRecord(2, 2)>>, <<PairChunk(2, 1)>>)
    /\ runners[2].stderr = <<PairChunk(2, 1), PairChunk(2, 2)>>


(***************************************************************************)
(* Claims C31..C40                                                         *)
(***************************************************************************)

\* C38: an interrupt() call made once the result of the invocation has resolved
\* issues no kill and leaves the resolved result unchanged.
C38_LateInterruptIsNoOp ==
    [][(result.st # "pending" /\ interruptCalls' = interruptCalls + 1) =>
          (kills' = kills /\ result' = result)]_vars


\* C37: a helper-driven call returns Ok only when the last collected record has
\* the status 'finished', and every cache entry holds a 'finished' record.
C37_OkOnlyWhenFinished ==
    /\ (lastReturn.op # "none" /\ lastReturn.res.ok) =>
          (lastReturn.outcome.st = "ok" /\ ~lastReturn.outcome.empty
              /\ lastReturn.outcome.last.status = "finished")
    /\ \A k \in CacheKeys : rustCache[k].present => rustCache[k].rec.status = "finished"


\* C36: in every step in which a helper-driven call returns Err (after a runner
\* failure, a timeout, an interruption, an empty stdout, a crashed or error
\* final record or a shape mismatch) the helper cache stays exactly as it was,
\* so every entry stored earlier is still there for later useCache=true calls.
C36_ErrLeavesCache ==
    [][((lastReturn' # lastReturn \/ \E c \in Callers : calls[c].pc = "spawned"
                                                        /\ calls'[c].pc = "idle")
          /\ ~lastReturn'.res.ok) =>
          /\ rustCache' = rustCache
          /\ \A k \in CacheKeys, checker \in Checkers :
                CacheHit(rustCache', k, checker, TRUE) = CacheHit(rustCache, k, checker, TRUE)]_vars

\* C36 witness: a useCache=true call found an entry whose data its checker
\* rejected, ran the helper, got a crashed final record and returned Err; the
\* entry it found is still stored.
C36_Witness ==
    /\ lastReturn.op = "exec" /\ lastReturn.spawns = 1
    /\ lastReturn.stale /\ lastReturn.staleData = DataObjB
    /\ ~lastReturn.res.ok
    /\ lastReturn.outcome.last.status = "crashed"
    /\ \E k \in CacheKeys : rustCache[k].present /\ rustCache[k].rec.data = DataObjB


\* C39: an entry of the HTTP response cache, once stored, is neither replaced
\* nor removed by any later step, and a request made with cache=false leaves
\* the whole cache as it was.
C39_EntryNeverReplaced ==
    [][/\ \A k \in ApiKeys : apiCache[k] # NoApiEntry => apiCache'[k] = apiCache[k]
       /\ (apiCall.pc = "fetch" /\ ~apiCall.cache) => apiCache' = apiCache]_vars

\* C39 witness: a cache=false request for a key that has an entry got a
\* different response object from the server and returned it; the entry is the
\* one stored before.
C39_Witness ==
    /\ apiReturn.op = "request" /\ ~apiReturn.cache /\ apiReturn.fetches = 1
    /\ apiReturn.res.ok /\ apiReturn.res.val = "obj2"
    /\ apiReturn.stored = "obj1"
    /\ apiCache[apiReturn.key] = "obj1"


\* C34: between the synchronous steps of the facade the in-memory token and
\* the persisted token agree: both are absent, or the in-memory token wraps the
\* persisted data; this holds while a call is suspended as well as between calls.
C34_TokenMatchesStorage ==
    \/ token = NoToken /\ storedToken = NoToken
    \/ token # NoToken /\ storedToken # NoToken /\ storedToken = token

\* C34 witness: with the token t1 in memory and in storage, an isAuthenticated
\* call found t2 in the helper and returned Ok: both now hold t2.
C34_Witness ==
    /\ authPc = "idle"
    /\ authReturn.op = "isAuthenticated" /\ authReturn.res = "ok"
    /\ authReturn.tokenBefore = "t1" /\ authReturn.storedBefore = "t1"
    /\ authReturn.helperAtCheck = "t2"
    /\ token = "t2" /\ storedToken = "t2"


\* C35: when authenticate has returned Ok, a token is present in memory and in
\* the persisted storage, whichever way the helper-driven path was selected.
C35_OkMeansTokenStored ==
    (authPc = "idle" /\ authReturn.op = "authenticate" /\ authReturn.res = "ok") =>
        (token # NoToken /\ storedToken # NoToken)


\* C31: the Process Runner resolves Ok only once the child's stdout stream is
\* closed, its Ok value holds every record collected, those delivered after the
\* exit event included, and the record the facade classifies is the last of them.
C31_OkOnlyAfterStdoutClosed ==
    /\ result.st = "ok" => (stdoutDestroyed /\ cprocess = "exited" /\ result.out = stdout)
    /\ (lastReturn.op = "exec" /\ lastReturn.outcome.st = "ok" /\ stdout # << >>) =>
          (~lastReturn.outcome.empty /\ lastReturn.outcome.last = stdout[Len(stdout)])

\* C31 witness: the child exited after an in-progress record, a finished record
\* arrived after the exit event, the runner resolved Ok with both and the call
\* returned Ok on the later one.
C31_Witness ==
    /\ cprocess = "exited" /\ recordsAtExit = 1
    /\ result.st = "ok" /\ Len(result.out) = 2
    /\ result.out[1].status = "in-progress"
    /\ result.out[2] = RecFinished
    /\ lastReturn.op = "exec" /\ lastReturn.res.ok
    /\ lastReturn.outcome.last = RecFinished


\* the newline-terminated lines of a text: every part of the split but the last
CompleteLines(text) == SubSeq(Split(text), 1, Len(Split(text)) - 1)

\* Reference for the claims about the reader, written from the JSON grammar and
\* not from the handler: a line is the text of a response when, between the
\* spaces around it, it opens with HEAD, closes with TAIL, and has between them
\* nothing that carries a quote (HEAD, TAIL) and no line feed
NonSpace(line) == {i \in 1..Len(line) : line[i] # "SP"}
First(line) == CHOOSE i \in NonSpace(line) : \A j \in NonSpace(line) : i <= j
Last(line) == CHOOSE i \in NonSpace(line) : \A j \in NonSpace(line) : j <= i

AcceptedLine(line) ==
    /\ NonSpace(line) # {}
    /\ First(line) < Last(line)
    /\ line[First(line)] = "HEAD" /\ line[Last(line)] = "TAIL"
    /\ \A i \in (First(line) + 1)..(Last(line) - 1) : line[i] \notin {"HEAD", "TAIL", "LF"}

\* the message of an accepted line
MessageOf(line) == SubSeq(line, First(line) + 1, Last(line) - 1)

\* the records of the accepted newline-terminated lines of a text, in order
ExpectedRecords(text) ==
    LET accepted == SelectSeq(CompleteLines(text), AcceptedLine) IN
    [i \in 1..Len(accepted) |-> [message |-> MessageOf(accepted[i])]]

\* C32: at every moment the records collected are exactly those of the
\* newline-terminated lines of the text received so far that parse as JSON and
\* have the response shape, in the order received; a line that is dropped
\* neither ends the invocation with an error nor removes or moves a record.
C32_RecordsAreAcceptedLines ==
    /\ reader.stdout = ExpectedRecords(reader.text)
    /\ reader.result.st # "err"

\* C32 witness: a line of JSON without the response shape, then a response
\* line; the invocation ended Ok with the one record of the second line.
C32_Witness ==
    /\ reader.text = <<"OBJ", "LF", "HEAD", "TAIL", "LF">>
    /\ reader.stdout = <<[message |-> << >>]>>
    /\ reader.result.st = "ok"

\* C33: when the process has exited with text left in the stdout buffer, the
\* result is Ok, it holds the records of the newline-terminated lines only, and
\* so its last record is the last complete record received: the text after the
\* last line feed adds nothing, whether or not it is a whole response.
C33_FragmentDiscarded ==
    reader.result.st # "pending" =>
        /\ reader.stdoutBuffer = Split(reader.text)[Len(Split(reader.text))]
        /\ reader.warned = (reader.stdoutBuffer # << >>)
        /\ reader.result = RunnerOk(ExpectedRecords(reader.text), << >>)

\* C33 witness: a response line and then a cut-off response without a line
\* feed; the result is Ok with the record of the complete line.
C33_Witness ==
    /\ reader.bytes = <<"HEAD", "TAIL", "LF", "HEAD">>
    /\ reader.stdoutBuffer = <<"HEAD">>
    /\ reader.warned
    /\ reader.result = RunnerOk(<<[message |-> << >>]>>, << >>)

\* C40: the records collected and the text left in the buffer are those the
\* handler gives when all the bytes delivered so far come as one chunk, so they
\* do not depend on where the chunks were cut.
C40_ChunkingIrrelevant ==
    /\ reader.stdout = StdoutHandler(<< >>, << >>, reader.bytes).stdout
    /\ reader.stdoutBuffer = StdoutHandler(<< >>, << >>, reader.bytes).stdoutBuffer

====
